---- MODULE Spec2Model ----
(***************************************************************************)
(* CoderCombat tournament manager: the Contest Engine (contest plan,       *)
(* naming, flow routing, round-1 placement) and the Contest Manager        *)
(* (creation of the planned contests in the judge system).                 *)
(***************************************************************************)
EXTENDS Integers, Sequences, FiniteSets, TLC

VARIABLES
    CONTEST_FLOW,   \* ContestEngine.CONTEST_FLOW, set by the constructor
    op,             \* the Contest Engine operation that ran last
    arg,            \* its arguments
    out,            \* the value it returned
    exc,            \* the exception it raised, "none" if it returned
    db_connection,  \* DatabaseManager.connection is set (tournament database)
    contests_table, \* rows of the tournament database's contests table
    dj_connection,  \* ContestManager.domjudge_db.connection is set
    dj_open,        \* connections to the judge-system database now open
    dj_contest,     \* the judge system's contest table, by cid
    pc,             \* position of create_all_contests
    all_contests,   \* its local all_contests
    idx,            \* position of the loop in all_contests (from 1)
    domjudge_contest_id, \* its local domjudge_contest_id
    results,        \* its local results, and the value it returns
    api_log,        \* create requests sent to the judge-system API, with replies
    lock_log,       \* visibility updates attempted, with what they reported
    call_state,     \* tables and connections as create_all_contests found them
    faults,         \* failures the environment has injected so far
    db_tables,      \* tables that exist in the tournament database
    tournament_state, \* rows of the tournament database's tournament_state table
    clock,          \* CURRENT_TIMESTAMP of the tournament database
    teams_table,    \* rows of the tournament database's teams table
    dj_team,        \* the judge system's team table
    dj_user,        \* the judge system's user table
    dj_userrole,    \* the judge system's userrole table
    screen,         \* where the interactive shell is, "none" when it does not run
    exit_status,    \* the exit status of the process, None while it runs
    writers         \* processes running create_team on the judge system, by number

engineVars == <<CONTEST_FLOW, op, arg, out, exc>>

managerVars == <<db_connection, contests_table, dj_connection, dj_open, dj_contest,
                 pc, all_contests, idx, domjudge_contest_id, results,
                 api_log, lock_log, call_state, faults>>

storeVars == <<db_tables, tournament_state, clock, teams_table, dj_team, dj_user,
               dj_userrole,
               screen, exit_status, writers>>

(***************************************************************************)
(* Optional values: Python's None and a present value.                     *)
(***************************************************************************)
None == <<>>

Some(v) == <<v>>

(***************************************************************************)
(* Bounds of the inputs drawn by the model.                                *)
(***************************************************************************)
MaxRoundInput == 9

\* Failures the environment may inject into one run of create_all_contests
\* (API create failed, visibility update failed, local insert failed).
MaxFaults == 3

\* The faults strike among the last FaultWindow contests of the plan.
FaultWindow == 6

\* Contests already created and stored by an earlier, interrupted run.
PreCreated == 2

RoundInputs == 0..MaxRoundInput

Leagues == {"losers", "winners"}

(***************************************************************************)
(* config/settings.py                                                      *)
(***************************************************************************)
TOTAL_TEAMS == 48

TOTAL_ROUNDS == 8

CONTEST_DURATION_MINUTES == 50

PENALTY_MINUTES == 5

\* ROUND_CONFIG: per round the ordered (type, count) pairs of 'contests'
\* and the 'problems' table.
ROUND_CONFIG ==
    [r \in 1..8 |->
       CASE r = 1 -> [contests |-> << <<"duels", 24>> >>,
                      problems |-> [duel |-> 3]]
         [] r = 2 -> [contests |-> << <<"duels_winners", 12>>, <<"groups_losers", 1>> >>,
                      problems |-> [duel |-> 3, group |-> 4]]
         [] r = 3 -> [contests |-> << <<"duels_winners", 8>>, <<"groups_losers", 1>> >>,
                      problems |-> [duel |-> 3, group |-> 4]]
         [] r = 4 -> [contests |-> << <<"duels_winners", 4>>, <<"groups_losers", 1>>,
                                      <<"speed_eliminated", 1>> >>,
                      problems |-> [duel |-> 3, group |-> 4, speed |-> 5]]
         [] r = 5 -> [contests |-> << <<"groups_losers", 1>>, <<"speed_eliminated", 1>> >>,
                      problems |-> [group |-> 4, speed |-> 5]]
         [] r = 6 -> [contests |-> << <<"duels", 4>> >>,
                      problems |-> [duel |-> 3]]
         [] r = 7 -> [contests |-> << <<"duels_winners", 2>>, <<"groups_losers", 1>> >>,
                      problems |-> [duel |-> 3, group |-> 4]]
         [] r = 8 -> [contests |-> << <<"final", 1>>, <<"third_place", 1>> >>,
                      problems |-> [duel |-> 3]]]

(***************************************************************************)
(* String formatting, as str.format and f-strings do it.                   *)
(***************************************************************************)
Digits == <<"0", "1", "2", "3", "4", "5", "6", "7", "8", "9">>

RECURSIVE ToStr(_)
\* "{n}" for a natural number: its decimal digits.
ToStr(n) == IF n < 10 THEN Digits[n + 1]
            ELSE ToStr(n \div 10) \o Digits[(n % 10) + 1]

\* "{n:02d}": the decimal digits, zero-padded on the left to width 2.
Format02d(n) == IF n < 10 THEN "0" \o ToStr(n) ELSE ToStr(n)

DuelNameUnpadded(round, number) == "R" \o ToStr(round) \o "_Duel_" \o ToStr(number)

\* CONTEST_NAMING['duel'] = 'R{round}_Duel_{number:02d}'
DuelName(round, number) == "R" \o ToStr(round) \o "_Duel_" \o Format02d(number)

\* CONTEST_NAMING['group'] = 'R{round}_Group_{league}'
GroupName(round, league) == "R" \o ToStr(round) \o "_Group_" \o league

\* CONTEST_NAMING['speed'] = 'R{round}_Speed_{type}'
SpeedName(round, type) == "R" \o ToStr(round) \o "_Speed_" \o type

\* CONTEST_NAMING['final'] = 'R{round}_Final'
FinalName(round) == "R" \o ToStr(round) \o "_Final"

\* CONTEST_NAMING['third_place'] = 'R{round}_Third_Place'
ThirdPlaceName(round) == "R" \o ToStr(round) \o "_Third_Place"

\* list(range(a, b))
Range(a, b) == [k \in 1..(b - a) |-> a + k - 1]

RECURSIVE Merge(_)
\* The dict built from a sequence of dicts, as a dict display {**a, **b}
\* or a dict comprehension builds it: a later entry overrides an earlier
\* one with the same key.
Merge(seq) == IF Len(seq) = 0 THEN <<>> ELSE Merge(Tail(seq)) @@ Head(seq)

(***************************************************************************)
(* core/contest_engine.py                                                  *)
(***************************************************************************)
\* The f-strings of the flow mapping, f"R1_Duel_{i:02d}" and the like.
FlowDuelKeyUnpadded(prefix, i) == prefix \o ToStr(i)

FlowDuelKey(prefix, i) == prefix \o Format02d(i)

HalfUpFloor(i) == (i \div 2) + 1

\* "winner_to" index of the duels that pair up into the next round.
HalfUp(i) == ((i - 1) \div 2) + 1

\* The index of the round-2 duel itself.
R2WinnerIndexSame(i) == i

\* "winner_to" index of the round-2 duels.
R2WinnerIndex(i) == IF i <= 8 THEN ((i - 1) \div 2) + 1 ELSE i - 4

InitializeContestFlowMapping ==
    Merge(<<
      Merge([i \in 1..24 |->
         FlowDuelKey("R1_Duel_", i) :> [winner_to |-> FlowDuelKey("R2_Duel_", HalfUp(i)),
                            loser_to |-> "R2_Group_Losers"]]),
      Merge([i \in 1..12 |->
         FlowDuelKey("R2_Duel_", i) :> [winner_to |-> FlowDuelKey("R3_Duel_", R2WinnerIndex(i)),
                            loser_to |-> "R3_Group_Losers"]]),
      "R2_Group_Losers" :> [rank_1_to |-> "R3_Duel_05", rank_2_to |-> "R3_Duel_06",
                            rank_3_to |-> "R3_Duel_07", rank_4_to |-> "R3_Duel_08",
                            rank_5_plus_to |-> "R3_Group_Losers"],
      Merge([i \in 1..8 |->
         FlowDuelKey("R3_Duel_", i) :> [winner_to |-> FlowDuelKey("R4_Duel_", HalfUp(i)),
                            loser_to |-> "R4_Group_Losers"]]),
      "R3_Group_Losers" :> [eliminated |-> TRUE, final_ranks |-> Range(25, 49)],
      Merge([i \in 1..4 |->
         FlowDuelKey("R4_Duel_", i) :> [winner_to |-> "R5_Rest", loser_to |-> "R5_Group_Losers"]]),
      "R4_Group_Losers" :> [all_to |-> "R5_Group_Losers"],
      "R4_Speed_Eliminated" :> [final_ranks |-> Range(25, 49), ranking_only |-> TRUE],
      "R5_Group_Losers" :> [rank_1_to |-> "R6_Duel_01", rank_2_to |-> "R6_Duel_02",
                            rank_3_to |-> "R6_Duel_03", rank_4_to |-> "R6_Duel_04",
                            rank_5_plus_to |-> "eliminated",
                            final_ranks |-> Range(9, 25)],
      "R5_Speed_Eliminated" :> [final_ranks |-> Range(25, 49), ranking_only |-> TRUE],
      Merge([i \in 1..4 |->
         FlowDuelKey("R6_Duel_", i) :> [winner_to |-> FlowDuelKey("R7_Duel_", HalfUp(i)),
                            loser_to |-> "R7_Group_Losers"]]),
      "R7_Duel_01" :> [winner_to |-> "R8_Final", loser_to |-> "R8_Third_Place"],
      "R7_Duel_02" :> [winner_to |-> "R8_Final", loser_to |-> "R8_Third_Place"],
      "R7_Group_Losers" :> [final_ranks |-> Range(5, 9)],
      "R8_Final" :> [winner_rank |-> 1, loser_rank |-> 2],
      "R8_Third_Place" :> [winner_rank |-> 3, loser_rank |-> 4]
    >>)

CreateContestData(name, round_num, contest_type, max_teams, problems_count) ==
    [domjudge_contest_id |-> None,
     contest_type |-> contest_type,
     max_teams |-> max_teams,
     problems_count |-> problems_count,
     contest_name |-> name,
     round_number |-> round_num,
     duration_minutes |-> CONTEST_DURATION_MINUTES,
     penalty_minutes |-> PENALTY_MINUTES,
     status |-> "planned"]

CalculateGroupMaxTeamsShifted(round_num, league) ==
    IF round_num = 2 /\ league = "losers" THEN 24
    ELSE IF round_num = 3 /\ league = "losers" THEN 32
    ELSE IF round_num = 4 /\ league = "losers" THEN 16
    ELSE IF round_num = 5 /\ league = "losers" THEN 8
    ELSE IF round_num = 6 /\ league = "losers" THEN 4
    ELSE 24

CalculateGroupMaxTeams(round_num, league) ==
    IF round_num = 2 /\ league = "losers" THEN 24
    ELSE IF round_num = 3 /\ league = "losers" THEN 32
    ELSE IF round_num = 4 /\ league = "losers" THEN 16
    ELSE IF round_num = 5 /\ league = "losers" THEN 8
    ELSE IF round_num = 7 /\ league = "losers" THEN 4
    ELSE 24

CalculateSpeedMaxTeams(round_num) ==
    IF round_num = 4 THEN 24
    ELSE IF round_num = 5 THEN 36
    ELSE 24

GenerateContestsByType(round_num, contest_type, count, problems_config) ==
    IF contest_type = "duels" THEN
        [i \in 1..count |->
           CreateContestData(DuelName(round_num, i), round_num, "duel", 2,
                             problems_config.duel)]
    ELSE IF contest_type = "duels_winners" THEN
        [i \in 1..count |->
           CreateContestData(DuelName(round_num, i), round_num, "duel", 2,
                             problems_config.duel)]
    ELSE IF contest_type = "groups_losers" THEN
        << CreateContestData(GroupName(round_num, "Losers"), round_num, "group",
                             CalculateGroupMaxTeams(round_num, "losers"),
                             problems_config.group) >>
    ELSE IF contest_type = "speed_eliminated" THEN
        << CreateContestData(SpeedName(round_num, "Eliminated"), round_num, "speed",
                             CalculateSpeedMaxTeams(round_num),
                             problems_config.speed) >>
    ELSE IF contest_type = "final" THEN
        << CreateContestData(FinalName(round_num), round_num, "duel", 2,
                             problems_config.duel) >>
    ELSE IF contest_type = "third_place" THEN
        << CreateContestData(ThirdPlaceName(round_num), round_num, "duel", 2,
                             problems_config.duel) >>
    ELSE <<>>

RoundIsValidBelow8(round_number) == round_number \in 1..7

\* generate_round_contests raises ValueError for a round that is no key of
\* ROUND_CONFIG.
RoundIsValid(round_number) == round_number \in DOMAIN ROUND_CONFIG

RECURSIVE ExtendByTypes(_, _, _)
\* The loop over round_config['contests'].items(), from the k-th pair on.
ExtendByTypes(round_number, k, contests) ==
    LET pairs == ROUND_CONFIG[round_number].contests
    IN IF k > Len(pairs) THEN contests
       ELSE ExtendByTypes(round_number, k + 1,
              contests \o GenerateContestsByType(round_number, pairs[k][1], pairs[k][2],
                                                 ROUND_CONFIG[round_number].problems))

\* The list generate_round_contests returns for a valid round.
GenerateRoundContests(round_number) == ExtendByTypes(round_number, 1, <<>>)

RECURSIVE ExtendByRounds(_, _)
\* The loop of generate_all_contests over range(1, total_rounds + 1).
ExtendByRounds(round_num, planned) ==
    IF round_num > TOTAL_ROUNDS THEN planned
    ELSE ExtendByRounds(round_num + 1, planned \o GenerateRoundContests(round_num))

\* generate_all_contests raises iff one of its rounds is invalid.
GenerateAllRaises == \E r \in 1..TOTAL_ROUNDS : ~RoundIsValid(r)

GenerateAllContests == ExtendByRounds(1, <<>>)

GetContestFlow(flow, contest_name) ==
    IF contest_name \in DOMAIN flow THEN Some(flow[contest_name]) ELSE None

ValidateTeamFlow == TOTAL_TEAMS = 48

RECURSIVE MissingFlowErrors(_, _, _)
\* The loop of validate_contest_structure over the generated contests.
MissingFlowErrors(flow, planned, k) ==
    IF k > Len(planned) THEN <<>>
    ELSE (IF planned[k].contest_name \notin DOMAIN flow
          THEN << "Missing flow mapping for contest: " \o planned[k].contest_name >>
          ELSE <<>>) \o MissingFlowErrors(flow, planned, k + 1)

ValidateContestStructure(flow) ==
    LET errors == MissingFlowErrors(flow, GenerateAllContests, 1)
                  \o (IF ~ValidateTeamFlow
                      THEN << "Team flow validation failed - teams don't add up correctly" >>
                      ELSE <<>>)
    IN [errors |-> errors, valid |-> Len(errors) = 0]

RECURSIVE PlaceTeamsStepOne(_, _, _)
PlaceTeamsStepOne(i, team_id, placement) ==
    IF i > 24 THEN placement
    ELSE PlaceTeamsStepOne(i + 1, team_id + 1,
                    (FlowDuelKey("R1_Duel_", i) :> <<team_id, team_id + 1>>) @@ placement)

RECURSIVE PlaceTeams(_, _, _)
\* The loop of get_initial_team_placement: duel i takes team_id and
\* team_id + 1, and team_id advances by 2.
PlaceTeams(i, team_id, placement) ==
    IF i > 24 THEN placement
    ELSE PlaceTeams(i + 1, team_id + 2,
                    (FlowDuelKey("R1_Duel_", i) :> <<team_id, team_id + 1>>) @@ placement)

GetInitialTeamPlacement == PlaceTeams(1, 1, <<>>)

(***************************************************************************)
(* menus/setup_menu.py: the placement self-test                            *)
(***************************************************************************)
RECURSIVE InsertSorted(_, _)
InsertSorted(x, seq) ==
    IF Len(seq) = 0 THEN <<x>>
    ELSE IF x <= Head(seq) THEN <<x>> \o seq
    ELSE <<Head(seq)>> \o InsertSorted(x, Tail(seq))

RECURSIVE Sorted(_)
\* list.sort() on a list of integers
Sorted(seq) == IF Len(seq) = 0 THEN <<>> ELSE InsertSorted(Head(seq), Sorted(Tail(seq)))

RECURSIVE ExtendTeams(_, _, _)
\* all_placed_teams.extend(teams) for the values of the placement, in the
\* order in which get_initial_team_placement inserted its keys.
ExtendTeams(placement, i, all_placed_teams) ==
    IF i > 24 \/ FlowDuelKey("R1_Duel_", i) \notin DOMAIN placement THEN all_placed_teams
    ELSE ExtendTeams(placement, i + 1,
                     all_placed_teams \o placement[FlowDuelKey("R1_Duel_", i)])

\* _test_initial_team_placement: the sorted list of placed teams and the
\* verdict of its comparison with list(range(1, 49)).
TestInitialTeamPlacement ==
    LET all_placed_teams == Sorted(ExtendTeams(GetInitialTeamPlacement, 1, <<>>))
    IN [all_placed_teams |-> all_placed_teams,
        correct |-> all_placed_teams = Range(1, 49)]

GetContestSummary ==
    LET all == GenerateAllContests
        InRound(r) == Cardinality({k \in 1..Len(all) : all[k].round_number = r})
        OfType(t) == Cardinality({k \in 1..Len(all) : all[k].contest_type = t})
    IN [total_contests |-> Len(all),
        by_round |-> [r \in {all[k].round_number : k \in 1..Len(all)} |-> InRound(r)],
        by_type |-> [t \in {"duel", "group", "speed"} |-> OfType(t)]]

(***************************************************************************)
(* The Contest Engine's operations, applied to inputs drawn from bounded   *)
(* sets.  The engine keeps no state but CONTEST_FLOW, which no operation   *)
(* writes.                                                                 *)
(***************************************************************************)
\* Names asked of get_contest_flow: every generated name, every routing
\* target, and names that exist nowhere.
FlowQueries ==
    {GenerateAllContests[k].contest_name : k \in 1..Len(GenerateAllContests)}
    \cup DOMAIN InitializeContestFlowMapping
    \cup {"R5_Rest", "eliminated", "R9_Final", "R1_Duel_1", "R1_Duel_25"}

Returns(o, a, v) == op' = o /\ arg' = a /\ out' = v /\ exc' = "none"

Raises(o, a, e) == op' = o /\ arg' = a /\ out' = <<>> /\ exc' = e

DoGenerateRoundContests(r) ==
    /\ IF RoundIsValid(r)
       THEN Returns("generate_round_contests", <<r>>, GenerateRoundContests(r))
       ELSE Raises("generate_round_contests", <<r>>, "ValueError")
    /\ UNCHANGED CONTEST_FLOW
    /\ UNCHANGED managerVars
    /\ UNCHANGED storeVars

DoGenerateAllContests ==
    /\ IF GenerateAllRaises
       THEN Raises("generate_all_contests", <<>>, "ValueError")
       ELSE Returns("generate_all_contests", <<>>, GenerateAllContests)
    /\ UNCHANGED CONTEST_FLOW
    /\ UNCHANGED managerVars
    /\ UNCHANGED storeVars

DoCalculateGroupMaxTeams(r, league) ==
    /\ Returns("calculate_group_max_teams", <<r, league>>, CalculateGroupMaxTeams(r, league))
    /\ UNCHANGED CONTEST_FLOW
    /\ UNCHANGED managerVars
    /\ UNCHANGED storeVars

DoCalculateSpeedMaxTeams(r) ==
    /\ Returns("calculate_speed_max_teams", <<r>>, CalculateSpeedMaxTeams(r))
    /\ UNCHANGED CONTEST_FLOW
    /\ UNCHANGED managerVars
    /\ UNCHANGED storeVars

DoGetContestFlow(name) ==
    /\ Returns("get_contest_flow", <<name>>, GetContestFlow(CONTEST_FLOW, name))
    /\ UNCHANGED CONTEST_FLOW
    /\ UNCHANGED managerVars
    /\ UNCHANGED storeVars

DoValidateContestStructure ==
    /\ IF GenerateAllRaises
       THEN Raises("validate_contest_structure", <<>>, "ValueError")
       ELSE Returns("validate_contest_structure", <<>>, ValidateContestStructure(CONTEST_FLOW))
    /\ UNCHANGED CONTEST_FLOW
    /\ UNCHANGED managerVars
    /\ UNCHANGED storeVars

DoGetContestSummary ==
    /\ IF GenerateAllRaises
       THEN Raises("get_contest_summary", <<>>, "ValueError")
       ELSE Returns("get_contest_summary", <<>>, GetContestSummary)
    /\ UNCHANGED CONTEST_FLOW
    /\ UNCHANGED managerVars
    /\ UNCHANGED storeVars

DoGetInitialTeamPlacement ==
    /\ Returns("get_initial_team_placement", <<>>, GetInitialTeamPlacement)
    /\ UNCHANGED CONTEST_FLOW
    /\ UNCHANGED managerVars
    /\ UNCHANGED storeVars

DoTestInitialTeamPlacement ==
    /\ Returns("test_initial_team_placement", <<>>, TestInitialTeamPlacement)
    /\ UNCHANGED CONTEST_FLOW
    /\ UNCHANGED managerVars
    /\ UNCHANGED storeVars

InitEngine ==
    /\ CONTEST_FLOW = InitializeContestFlowMapping
    /\ op = "init"
    /\ arg = <<>>
    /\ out = <<>>
    /\ exc = "none"
    /\ screen = "none"
    /\ exit_status = None
    /\ writers = <<>>

NextEngine ==
    \/ \E r \in RoundInputs : DoGenerateRoundContests(r)
    \/ DoGenerateAllContests
    \/ \E r \in RoundInputs, league \in Leagues : DoCalculateGroupMaxTeams(r, league)
    \/ \E r \in RoundInputs : DoCalculateSpeedMaxTeams(r)
    \/ \E name \in FlowQueries : DoGetContestFlow(name)
    \/ DoValidateContestStructure
    \/ DoGetContestSummary
    \/ DoGetInitialTeamPlacement
    \/ DoTestInitialTeamPlacement

(***************************************************************************)
(* core/domjudge_db.py, core/database.py: connections and statements       *)
(***************************************************************************)
\* DOMjudgeDBManager.disconnect: closes the connection if there is one and
\* clears the field.  <<connection, open>> before and after.
Disconnect(connection, open) ==
    IF connection THEN <<FALSE, open - 1>> ELSE <<connection, open>>

\* execute_query returns False at once when the manager has no connection.
ExecuteRuns(connection) == connection

\* contest_name is declared UNIQUE: an INSERT of a stored name is a
\* database error.
InsertViolatesUnique(table, name) == \E row \in table : row.contest_name = name

(***************************************************************************)
(* core/contest_manager.py: create_all_contests                            *)
(***************************************************************************)
DEFAULT_ACTIVATION_DELAY_HOURS == 48

\* f"{duration_hours}:{duration_mins:02d}:00"
DurationStr(duration_minutes) ==
    ToStr(duration_minutes \div 60) \o ":" \o Format02d(duration_minutes % 60) \o ":00"

\* str.title() on the three contest types
Title(contest_type) ==
    CASE contest_type = "duel" -> "Duel"
      [] contest_type = "group" -> "Group"
      [] contest_type = "speed" -> "Speed"

\* contest_json of _create_single_contest; the two times are hours from now.
ContestJson(contest_data, activation_delay_hours) ==
    [name |-> contest_data.contest_name \o " - " \o Title(contest_data.contest_type),
     short_name |-> contest_data.contest_name,
     activation_time |-> activation_delay_hours,
     start_time |-> activation_delay_hours + 1,
     duration |-> DurationStr(contest_data.duration_minutes)]

\* The judge system's reply to a create request that it accepts: the new
\* contest, visible to all teams until it is closed, and its id.
ApiCreateContest(table, contest_json) ==
    LET cid == 1 + Cardinality(DOMAIN table)
    IN [table |-> (cid :> [short_name |-> contest_json.short_name,
                           open_to_all_teams |-> TRUE]) @@ table,
        id |-> cid]

\* "if domjudge_contest_id:" on the optional id
Truthy(id) == id # None /\ id[1] # 0

\* UPDATE contest SET open_to_all_teams = 0 WHERE cid = %s
SetOpenToAllTeamsFalse(table, cid) ==
    [c \in DOMAIN table |->
       IF c = cid THEN [table[c] EXCEPT !.open_to_all_teams = FALSE] ELSE table[c]]

\* The row _save_contest_to_db inserts.
ContestRow(contest_data, id) ==
    [domjudge_contest_id |-> id,
     contest_type |-> contest_data.contest_type,
     max_teams |-> contest_data.max_teams,
     problems_count |-> contest_data.problems_count,
     contest_name |-> contest_data.contest_name,
     round_number |-> contest_data.round_number]

\* The result returned when the judge-system database cannot be connected.
FailFastResult(contests) ==
    [total_contests |-> Len(contests),
     success |-> FALSE,
     error |-> "Failed to connect to DOMjudge database",
     success_count |-> 0,
     failed_contests |-> <<>>]

InitialResults(contests) ==
    [total_contests |-> Len(contests),
     success_count |-> 0,
     failed_contests |-> <<>>,
     created_contests |-> <<>>]

\* create_all_contests returns early iff connect() returned False.
FailFastNever(connected) == FALSE

FailFast(connected) == ~connected

RecordSuccess(res, contest_data, id) ==
    [res EXCEPT !.success_count = @ + 1,
                !.created_contests = Append(@, [name |-> contest_data.contest_name,
                                                domjudge_id |-> id])]

RecordFailureAndCount(res, contest_data, error, id) ==
    [res EXCEPT !.success_count = @ + 1,
                !.failed_contests = Append(@, [name |-> contest_data.contest_name,
                                               error |-> error,
                                               domjudge_id |-> id])]

RecordFailure(res, contest_data, error, id) ==
    [res EXCEPT !.failed_contests = Append(@, [name |-> contest_data.contest_name,
                                               error |-> error,
                                               domjudge_id |-> id])]

\* The local save is attempted iff _set_contest_closed returned True.
SaveAfterCloseAlways(closed) == TRUE

SaveAfterClose(closed) == closed

\* The finally clause runs disconnect() however the try block was left.
FinallyOnReturnOnly(how, connection, open) ==
    IF how = "return" THEN Disconnect(connection, open) ELSE <<connection, open>>

Finally(how, connection, open) == Disconnect(connection, open)

\* The try block is left by return or by an exception: the finally clause
\* runs, and create_all_contests is over.
ExitTry(how) ==
    /\ pc' = IF how = "return" THEN "returned" ELSE "raised"
    /\ LET after == Finally(how, dj_connection, dj_open)
       IN dj_connection' = after[1] /\ dj_open' = after[2]

\* End of one pass of the loop body: the next contest, or the exit of the
\* try block once the list is exhausted.
NextContest ==
    /\ idx' = idx + 1
    /\ domjudge_contest_id' = None
    /\ IF idx + 1 > Len(all_contests)
       THEN ExitTry("return")
       ELSE pc' = "create" /\ UNCHANGED <<dj_connection, dj_open>>

\* The environment may make the step on the current contest fail.
MayFail == faults < MaxFaults /\ idx > Len(all_contests) - FaultWindow

\* create_all_contests up to the loop: the plan, the connection attempt
\* (which the environment lets succeed or not) and the fail-fast return.
StartCreateAll(reachable) ==
    /\ pc = "idle"
    /\ all_contests' = GenerateAllContests
    /\ call_state' = [db_connection |-> db_connection, contests_table |-> contests_table,
                      dj_contest |-> dj_contest, requests |-> Len(api_log),
                      dj_connected |-> reachable]
    /\ dj_connection' = reachable
    /\ dj_open' = IF reachable THEN dj_open + 1 ELSE dj_open
    /\ IF FailFast(reachable)
       THEN /\ results' = FailFastResult(GenerateAllContests)
            /\ pc' = "returned"
            /\ UNCHANGED idx
       ELSE /\ results' = InitialResults(GenerateAllContests)
            /\ idx' = 1
            /\ pc' = "create"
    /\ UNCHANGED <<db_connection, contests_table, dj_contest, domjudge_contest_id,
                   api_log, lock_log, faults>>
    /\ UNCHANGED engineVars
    /\ UNCHANGED storeVars

\* _create_single_contest: the create request, which the judge system
\* accepts (returning the new id) or which fails (None).
CreateSingleContest(accepted) ==
    /\ pc = "create"
    /\ accepted \/ MayFail
    /\ LET contest_data == all_contests[idx]
           contest_json == ContestJson(contest_data, DEFAULT_ACTIVATION_DELAY_HOURS)
           reply == ApiCreateContest(dj_contest, contest_json)
           id == IF accepted THEN Some(reply.id) ELSE None
       IN /\ api_log' = Append(api_log, [reply |-> id, request |-> contest_json])
          /\ IF accepted
             THEN dj_contest' = reply.table /\ UNCHANGED faults
             ELSE faults' = faults + 1 /\ UNCHANGED dj_contest
          /\ IF Truthy(id)
             THEN /\ domjudge_contest_id' = id
                  /\ pc' = "close"
                  /\ UNCHANGED <<results, idx, dj_connection, dj_open>>
             ELSE /\ results' = RecordFailure(results, contest_data,
                                              "Failed to create in DOMjudge", None)
                  /\ NextContest
    /\ UNCHANGED <<db_connection, contests_table, all_contests, lock_log, call_state>>
    /\ UNCHANGED engineVars
    /\ UNCHANGED storeVars

\* _set_contest_closed: the visibility update on the judge-system database.
SetContestClosed(succeeds) ==
    /\ pc = "close"
    /\ succeeds \/ MayFail
    /\ LET contest_data == all_contests[idx]
           cid == domjudge_contest_id[1]
           closed == ExecuteRuns(dj_connection) /\ succeeds
       IN /\ lock_log' = lock_log \cup {[cid |-> cid, ok |-> closed]}
          /\ dj_contest' = IF closed THEN SetOpenToAllTeamsFalse(dj_contest, cid)
                           ELSE dj_contest
          /\ faults' = IF succeeds THEN faults ELSE faults + 1
          /\ IF SaveAfterClose(closed)
             THEN /\ pc' = "save"
                  /\ UNCHANGED <<results, idx, domjudge_contest_id, dj_connection, dj_open>>
             ELSE /\ results' = RecordFailure(results, contest_data,
                                              "Failed to set contest as closed",
                                              domjudge_contest_id)
                  /\ NextContest
    /\ UNCHANGED <<db_connection, contests_table, all_contests, api_log, call_state>>
    /\ UNCHANGED engineVars
    /\ UNCHANGED storeVars

\* _save_contest_to_db: the INSERT into the tournament contests table.
SaveContestToDb(succeeds) ==
    /\ pc = "save"
    /\ succeeds \/ MayFail
    /\ LET contest_data == all_contests[idx]
           row == ContestRow(contest_data, domjudge_contest_id[1])
           saved == /\ ExecuteRuns(db_connection)
                    /\ ~InsertViolatesUnique(contests_table, row.contest_name)
                    /\ succeeds
       IN /\ contests_table' = IF saved THEN contests_table \cup {row} ELSE contests_table
          /\ faults' = IF succeeds THEN faults ELSE faults + 1
          /\ results' = IF saved
                        THEN RecordSuccess(results, contest_data, domjudge_contest_id)
                        ELSE RecordFailure(results, contest_data,
                                           "Failed to save to local database",
                                           domjudge_contest_id)
          /\ NextContest
    /\ UNCHANGED <<db_connection, dj_contest, all_contests, api_log, lock_log, call_state>>
    /\ UNCHANGED engineVars
    /\ UNCHANGED storeVars

\* An exception that no handler of the loop body catches (an interrupt, or
\* an overflow of the date arithmetic before the request) leaves the try
\* block; the exception propagates to the caller.
RaiseInLoop ==
    /\ pc \in {"create", "close", "save"}
    /\ ExitTry("raise")
    /\ UNCHANGED <<db_connection, contests_table, dj_contest, all_contests, idx,
                   domjudge_contest_id, results, api_log, lock_log, call_state, faults>>
    /\ UNCHANGED engineVars
    /\ UNCHANGED storeVars

\* The rows and judge-system contests an earlier run left behind after
\* creating the first n planned contests.
StoredRows(n) ==
    {ContestRow(GenerateAllContests[k], k) : k \in 1..n}

StoredJudgeContests(n) ==
    [cid \in 1..n |-> [short_name |-> GenerateAllContests[cid].contest_name,
                       open_to_all_teams |-> FALSE]]

\* The tables list of initialize_database, in the order of its loop.
tables == <<"teams", "contests", "team_contests", "tournament_state">>

\* The row of INSERT IGNORE INTO tournament_state (id, current_round,
\* current_phase, total_teams) VALUES (1, 1, 'setup', 48), with the column
\* defaults of the CREATE TABLE statement; last_updated defaults to
\* CURRENT_TIMESTAMP.
InitStateRow(now) ==
    [id |-> 1,
     current_round |-> 1,
     current_phase |-> "setup",
     total_teams |-> 48,
     winners_league_count |-> 0,
     losers_league_count |-> 0,
     eliminated_count |-> 0,
     last_updated |-> now,
     notes |-> None]

\* A tournament database whose schema has been initialized, with no team
\* loaded, and a judge system with no team account.
InitStore ==
    /\ db_tables = {tables[k] : k \in 1..Len(tables)}
    /\ tournament_state = {InitStateRow(0)}
    /\ clock = 0
    /\ teams_table = {}
    /\ dj_team = {}
    /\ dj_user = {}
    /\ dj_userrole = {}

InitManager ==
    /\ db_connection \in BOOLEAN
    /\ \E n \in {0, PreCreated} :
          /\ contests_table = StoredRows(n)
          /\ dj_contest = StoredJudgeContests(n)
    /\ dj_connection = FALSE
    /\ dj_open = 0
    /\ pc = "idle"
    /\ all_contests = <<>>
    /\ idx = 0
    /\ domjudge_contest_id = None
    /\ results = None
    /\ api_log = <<>>
    /\ lock_log = {}
    /\ call_state = None
    /\ faults = 0

Init == InitEngine /\ InitManager /\ InitStore

Next ==
    \/ \E reachable \in BOOLEAN : StartCreateAll(reachable)
    \/ \E accepted \in BOOLEAN : CreateSingleContest(accepted)
    \/ \E succeeds \in BOOLEAN : SetContestClosed(succeeds)
    \/ \E succeeds \in BOOLEAN : SaveContestToDb(succeeds)
    \/ RaiseInLoop

vars == <<CONTEST_FLOW, op, arg, out, exc, db_connection, contests_table, dj_connection,
          dj_open, dj_contest, pc, all_contests, idx, domjudge_contest_id, results,
          api_log, lock_log, call_state, faults, db_tables, tournament_state, clock,
          teams_table, dj_team, dj_user, dj_userrole,
          screen, exit_status, writers>>

Spec == Init /\ [][Next]_vars

SpecEngine == Init /\ [][NextEngine]_vars

(***************************************************************************)
(* core/database.py, core/domjudge_db.py: execute_query and fetch_query    *)
(***************************************************************************)
\* What the database server does with one statement: it runs it ("ok"), it
\* rejects it with a pymysql.Error and the connection stays usable
\* ("error"), or the connection breaks while the statement runs ("lost"):
\* cursor.execute raises a pymysql.Error and so does every later call on
\* the connection, rollback() included.
Outcomes == {"ok", "error", "lost"}

\* execute_query: False at once without a connection; execute and commit,
\* True; on pymysql.Error the handler calls rollback() and returns False,
\* and an error raised by rollback() itself leaves the method.
ExecuteQuery(connection, outcome) ==
    IF ~connection
    THEN [value |-> FALSE, raised |-> FALSE, ran |-> FALSE,
          committed |-> FALSE, rolled_back |-> FALSE]
    ELSE CASE outcome = "ok" ->
                [value |-> TRUE, raised |-> FALSE, ran |-> TRUE,
                 committed |-> TRUE, rolled_back |-> FALSE]
           [] outcome = "error" ->
                [value |-> FALSE, raised |-> FALSE, ran |-> TRUE,
                 committed |-> FALSE, rolled_back |-> TRUE]
           [] outcome = "lost" ->
                [value |-> FALSE, raised |-> TRUE, ran |-> TRUE,
                 committed |-> FALSE, rolled_back |-> FALSE]

\* fetch_query: None at once without a connection; the rows of fetchall();
\* None on pymysql.Error.
FetchQuery(connection, outcome, rows) ==
    IF ~connection
    THEN [value |-> None, ran |-> FALSE]
    ELSE IF outcome = "ok"
         THEN [value |-> Some(rows), ran |-> TRUE]
         ELSE [value |-> None, ran |-> TRUE]

\* fetch_one: results[0] if results else None, on a list of rows.
FetchOne(connection, outcome, rows) ==
    LET fetched == FetchQuery(connection, outcome, rows).value
    IN IF fetched # None /\ Len(fetched[1]) > 0 THEN Some(fetched[1][1]) ELSE None

(***************************************************************************)
(* core/contest_manager.py: creation status, verification, deletion        *)
(***************************************************************************)
\* "fetch_query(...) or []" of get_contest_creation_status.  The rows are
\* kept as a set: contest_name is UNIQUE and the status reads the list only
\* through its length and the dict of its names.
FetchedOrEmpty(value) == IF value = None THEN {} ELSE value[1]

\* created_names = {contest['contest_name']: contest for contest in ...}
CreatedNames(created_contests) ==
    [name \in {row.contest_name : row \in created_contests} |->
       CHOOSE row \in created_contests : row.contest_name = name]

\* "if planned['contest_name'] in created_names"
IsCreated(created_names, planned) == planned.contest_name \in DOMAIN created_names

\* The entry appended to created_contests in the branch "Contest exists".
CreatedEntry(planned, created) ==
    [round |-> planned.round_number,
     type |-> planned.contest_type,
     name |-> planned.contest_name,
     status |-> "created",
     domjudge_id |-> created.domjudge_contest_id]

\* The entry appended to missing_contests in the branch "Contest missing".
MissingEntry(planned) ==
    [round |-> planned.round_number,
     type |-> planned.contest_type,
     name |-> planned.contest_name,
     status |-> "missing"]

\* status_data['created_contests'] after the loop over the planned
\* contests: one entry per planned contest found, in the order of the plan.
CreatedList(planned_contests, created_names) ==
    LET found == SelectSeq(planned_contests, LAMBDA p : IsCreated(created_names, p))
    IN [k \in 1..Len(found) |->
          CreatedEntry(found[k], created_names[found[k].contest_name])]

\* status_data['missing_contests'] after the loop.
MissingList(planned_contests, created_names) ==
    LET absent == SelectSeq(planned_contests, LAMBDA p : ~IsCreated(created_names, p))
    IN [k \in 1..Len(absent) |-> MissingEntry(absent[k])]

RoundMissingAll(in_round, created_names) ==
    [k \in 1..Len(in_round) |-> in_round[k].contest_name]

\* by_round[round_num]['missing'] after the loop: the names appended in the
\* branch "Contest missing" for the planned contests of the round.
RoundMissing(in_round, created_names) ==
    LET absent == SelectSeq(in_round, LAMBDA p : ~IsCreated(created_names, p))
    IN [k \in 1..Len(absent) |-> absent[k].contest_name]

\* status_data['by_round'] after the loop: an entry for every round that
\* has a planned contest, with the counters the loop incremented.
ByRound(planned_contests, created_names) ==
    [round_num \in {planned_contests[k].round_number : k \in 1..Len(planned_contests)} |->
       LET in_round == SelectSeq(planned_contests, LAMBDA p : p.round_number = round_num)
       IN [planned |-> Len(in_round),
           created |-> Len(SelectSeq(in_round, LAMBDA p : IsCreated(created_names, p))),
           missing |-> RoundMissing(in_round, created_names)]]

\* get_contest_creation_status, given what fetch_query returned.
GetContestCreationStatus(fetched) ==
    LET planned_contests == GenerateAllContests
        created_contests == FetchedOrEmpty(fetched)
        created_names == CreatedNames(created_contests)
    IN [by_round |-> ByRound(planned_contests, created_names),
        created_contests |-> CreatedList(planned_contests, created_names),
        total_planned |-> Len(planned_contests),
        total_created |-> Cardinality(created_contests),
        missing_contests |-> MissingList(planned_contests, created_names)]

CreationErrorsZeroOnly(status) ==
    IF status.total_created = 0
    THEN <<"No contests have been created in DOMjudge">>
    ELSE <<>>

\* The errors verify_contest_setup derives from the status.
CreationErrors(status) ==
    IF status.total_created = 0
    THEN <<"No contests have been created in DOMjudge">>
    ELSE IF status.total_created < status.total_planned
         THEN <<ToStr(Len(status.missing_contests))
                  \o " contests are missing from DOMjudge">>
         ELSE <<>>

\* The error of the reachability check, given what connect() returned.
ConnectionErrors(connected) ==
    IF ~connected THEN <<"Cannot connect to DOMjudge database">> ELSE <<>>

\* [f"Contest structure: {error}" for error in structure_errors]
StructureErrors(structure) ==
    IF ~structure.valid
    THEN [k \in 1..Len(structure.errors) |-> "Contest structure: " \o structure.errors[k]]
    ELSE <<>>

\* The triple verify_contest_setup returns.
VerifyContestSetup(status, connected, structure) ==
    LET errors == CreationErrors(status) \o ConnectionErrors(connected)
                    \o StructureErrors(structure)
    IN [errors |-> errors,
        is_complete |-> Len(errors) = 0,
        status_info |-> [contests_status |-> status,
                         structure_valid |-> structure.valid]]

DeleteAllContestsUncaught(executed, row_count) ==
    LET initial == [errors |-> <<>>, local_deleted |-> 0, domjudge_deleted |-> 0]
    IN IF executed.raised
       THEN initial
       ELSE IF executed.value
            THEN IF row_count = None
                 THEN initial
                 ELSE [initial EXCEPT !.local_deleted = row_count[1].count]
            ELSE [initial EXCEPT
                    !.errors = <<"Failed to delete contests from local database">>]

\* The dict delete_all_contests returns, given what execute_query did with
\* the DELETE and what fetch_one returned for SELECT ROW_COUNT().  An
\* exception of the try block (one leaving execute_query, or the TypeError
\* of subscripting None) is caught and listed.
DeleteAllContests(executed, row_count) ==
    LET initial == [errors |-> <<>>, local_deleted |-> 0, domjudge_deleted |-> 0]
    IN IF executed.raised
       THEN [initial EXCEPT !.errors = <<"Delete operation failed">>]
       ELSE IF executed.value
            THEN IF row_count = None
                 THEN [initial EXCEPT !.errors = <<"Delete operation failed">>]
                 ELSE [initial EXCEPT !.local_deleted = row_count[1].count]
            ELSE [initial EXCEPT
                    !.errors = <<"Failed to delete contests from local database">>]

\* DOMjudgeDBManager.connect: a new connection replaces the field when the
\* server is reachable.  <<connection, open>> before and after.
Connect(connection, open, reachable) ==
    IF reachable THEN <<TRUE, open + 1>> ELSE <<connection, open>>

\* verify_contest_setup closes the connection only if connect() returned
\* True.
DisconnectIfConnected(connected, connection, open) ==
    IF connected THEN Disconnect(connection, open) ELSE <<connection, open>>

\* The variables that the status operations of the Contest Manager never
\* touch: the locals of create_all_contests and the other tables.
statusFrame == <<CONTEST_FLOW, pc, all_contests, idx, domjudge_contest_id, results,
                 lock_log, call_state, faults,
                 screen, exit_status, writers>>

DoGetContestCreationStatus(outcome) ==
    /\ pc = "idle"
    /\ LET fetched == FetchQuery(db_connection, outcome, contests_table).value
       IN Returns("get_contest_creation_status", <<outcome>>,
                  GetContestCreationStatus(fetched))
    /\ UNCHANGED <<db_connection, contests_table, dj_connection, dj_open, dj_contest,
                   api_log>>
    /\ UNCHANGED statusFrame
    /\ UNCHANGED storeVars

DoVerifyContestSetup(outcome, reachable) ==
    /\ pc = "idle"
    /\ LET fetched == FetchQuery(db_connection, outcome, contests_table).value
           status == GetContestCreationStatus(fetched)
           connected == Connect(dj_connection, dj_open, reachable)
           after == DisconnectIfConnected(reachable, connected[1], connected[2])
       IN /\ Returns("verify_contest_setup", <<outcome, reachable>>,
                     VerifyContestSetup(status, reachable,
                                        ValidateContestStructure(CONTEST_FLOW)))
          /\ dj_connection' = after[1]
          /\ dj_open' = after[2]
    /\ UNCHANGED <<db_connection, contests_table, dj_contest, api_log>>
    /\ UNCHANGED statusFrame
    /\ UNCHANGED storeVars

\* What SELECT ROW_COUNT() may report after the DELETE and its COMMIT, for
\* a table of n rows.
RowCounts(n) == {-1, 0, n}

DoDeleteAllContests(outcome, read, count) ==
    /\ pc = "idle"
    /\ LET executed == ExecuteQuery(db_connection, outcome)
           row_count == FetchOne(db_connection, read, <<[count |-> count]>>)
       IN /\ Returns("delete_all_contests", <<outcome, read>>,
                     DeleteAllContests(executed, row_count))
          /\ contests_table' = IF executed.committed THEN {} ELSE contests_table
    /\ UNCHANGED <<db_connection, dj_connection, dj_open, dj_contest, api_log>>
    /\ UNCHANGED statusFrame
    /\ UNCHANGED storeVars

\* Positions in the plan of the contests that earlier runs of
\* create_all_contests may have stored: contests of rounds 1, 2, 4 and 8.
SampleIndices == {1, 24, 25, 37, 50, 63}

RowsAt(S) == {ContestRow(GenerateAllContests[k], k) : k \in S}

JudgeContestsAt(S) ==
    [cid \in S |-> [short_name |-> GenerateAllContests[cid].contest_name,
                    open_to_all_teams |-> FALSE]]

\* What earlier runs have stored: any part of the sample, or the whole plan.
StoredSets == (SUBSET SampleIndices) \cup {1..Len(GenerateAllContests)}

InitStatus ==
    /\ InitEngine
    /\ InitStore
    /\ db_connection \in BOOLEAN
    /\ \E S \in StoredSets :
          /\ contests_table = RowsAt(S)
          /\ dj_contest = JudgeContestsAt(S)
    /\ dj_connection = FALSE
    /\ dj_open = 0
    /\ pc = "idle"
    /\ all_contests = <<>>
    /\ idx = 0
    /\ domjudge_contest_id = None
    /\ results = None
    /\ api_log = <<>>
    /\ lock_log = {}
    /\ call_state = None
    /\ faults = 0

NextStatus ==
    \/ \E outcome \in Outcomes : DoGetContestCreationStatus(outcome)
    \/ \E outcome \in Outcomes, reachable \in BOOLEAN :
          DoVerifyContestSetup(outcome, reachable)
    \/ \E outcome \in Outcomes, read \in Outcomes,
          count \in RowCounts(Cardinality(contests_table)) :
          DoDeleteAllContests(outcome, read, count)

SpecStatus == InitStatus /\ [][NextStatus]_vars

(***************************************************************************)
(* core/database.py, core/domjudge_db.py: the connection primitives of the *)
(* two database managers, and core/database.py: the schema and the         *)
(* tournament state.                                                       *)
(***************************************************************************)
\* The tournament database manager and the judge-system database manager.
Managers == {"tournament", "domjudge"}

\* self.connection of a manager is set.
ConnectionOf(manager) == IF manager = "tournament" THEN db_connection ELSE dj_connection

\* is_connected: self.connection is not None
IsConnected(connection) == connection

\* A table named by a REFERENCES clause of CREATE TABLE must exist.
References(table) == IF table = "team_contests" THEN {"teams", "contests"} ELSE {}

\* What the server does with the CREATE TABLE IF NOT EXISTS of a table,
\* given the outcome the environment allows: it is an error when a
\* referenced table does not exist.
CreateOutcome(table, existing, outcome) ==
    IF outcome = "ok" /\ ~(References(table) \subseteq existing) THEN "error" ELSE outcome

\* The loop "for table_name, query in tables" of initialize_database from
\* the k-th table on: the tables that exist, success_count, and whether an
\* exception left execute_query.
RECURSIVE CreateTables(_, _, _, _)
CreateTables(connection, outcomes, k, state) ==
    IF k > Len(tables) \/ state.raised
    THEN state
    ELSE LET executed == ExecuteQuery(connection,
                                      CreateOutcome(tables[k], state.existing, outcomes[k]))
         IN CreateTables(connection, outcomes, k + 1,
                [success_count |-> IF executed.value
                                   THEN state.success_count + 1
                                   ELSE state.success_count,
                 raised |-> executed.raised,
                 existing |-> IF executed.committed
                              THEN state.existing \cup {tables[k]}
                              ELSE state.existing])

InsertReplace(rows, row) ==
    {r \in rows : r.id # row.id} \cup {row}

\* INSERT IGNORE: the row is added unless a row with its primary key exists.
InsertIgnore(rows, row) ==
    IF \E r \in rows : r.id = row.id THEN rows ELSE rows \cup {row}

\* A statement on tournament_state is an error when the table does not
\* exist.
OnTable(table, existing, outcome) ==
    IF outcome = "ok" /\ table \notin existing THEN "error" ELSE outcome

\* initialize_database: the four CREATE TABLE statements, the seed insert,
\* and "return success_count == len(tables) + 1".
InitializeDatabase(connection, outcomes, existing, rows, now) ==
    LET created == CreateTables(connection, outcomes, 1,
                                [success_count |-> 0, raised |-> FALSE,
                                 existing |-> existing])
        seeded == ExecuteQuery(connection,
                               OnTable("tournament_state", created.existing,
                                       outcomes[Len(tables) + 1]))
        success_count == IF seeded.value
                         THEN created.success_count + 1
                         ELSE created.success_count
    IN IF created.raised
       THEN [value |-> FALSE, raised |-> TRUE, rows |-> rows,
             existing |-> created.existing]
       ELSE [value |-> ~seeded.raised /\ success_count = Len(tables) + 1,
             raised |-> seeded.raised,
             rows |-> IF seeded.committed THEN InsertIgnore(rows, InitStateRow(now))
                      ELSE rows,
             existing |-> created.existing]

\* The columns of tournament_state.
StateColumns == DOMAIN InitStateRow(0)

SetFieldsResetting(row, kwargs, now) ==
    [f \in DOMAIN row |->
       IF f \in DOMAIN kwargs THEN kwargs[f]
       ELSE IF f = "id" THEN row[f] ELSE InitStateRow(now)[f]]

\* UPDATE ... SET f1 = %s, ... on one row: the named columns take the given
\* values, and last_updated (ON UPDATE CURRENT_TIMESTAMP) takes the current
\* timestamp when the statement changes the row and does not set the
\* column itself.
SetFields(row, kwargs, now) ==
    LET assigned == [f \in DOMAIN row |-> IF f \in DOMAIN kwargs THEN kwargs[f] ELSE row[f]]
        changed == \E f \in DOMAIN kwargs : kwargs[f] # row[f]
    IN IF changed /\ "last_updated" \notin DOMAIN kwargs
       THEN [assigned EXCEPT !.last_updated = now]
       ELSE assigned

\* ... WHERE id = 1
ApplyUpdate(rows, kwargs, now) ==
    {IF row.id = 1 THEN SetFields(row, kwargs, now) ELSE row : row \in rows}

\* The UPDATE names a column the table does not have: a database error.
UpdateOutcome(kwargs, existing, outcome) ==
    IF outcome = "ok" /\ ~(DOMAIN kwargs \subseteq StateColumns)
    THEN "error"
    ELSE OnTable("tournament_state", existing, outcome)

\* update_tournament_state(**kwargs): False at once for no field; else the
\* UPDATE through execute_query.
UpdateTournamentState(connection, kwargs, outcome, existing, rows, now) ==
    IF DOMAIN kwargs = {}
    THEN [value |-> FALSE, raised |-> FALSE, ran |-> FALSE, rows |-> rows]
    ELSE LET executed == ExecuteQuery(connection, UpdateOutcome(kwargs, existing, outcome))
         IN [value |-> executed.value, raised |-> executed.raised, ran |-> executed.ran,
             rows |-> IF executed.committed THEN ApplyUpdate(rows, kwargs, now) ELSE rows]

\* Connections to the judge-system database that may be open at once.
MaxOpen == 1

\* The latest CURRENT_TIMESTAMP of the tournament database.
MaxClock == 1

\* Statements of one run of initialize_database that the environment may
\* make fail.
MaxStmtFaults == 1

\* The outcomes of the n statements of one operation.
OutcomeSeqs(n) ==
    {o \in [1..n -> Outcomes] : Cardinality({k \in 1..n : o[k] # "ok"}) <= MaxStmtFaults}

AllOk(outcomes) == \A k \in 1..Len(outcomes) : outcomes[k] = "ok"

\* The locals of create_all_contests and the logs when no creation runs.
InitIdle ==
    /\ pc = "idle"
    /\ all_contests = <<>>
    /\ idx = 0
    /\ domjudge_contest_id = None
    /\ results = None
    /\ api_log = <<>>
    /\ lock_log = {}
    /\ call_state = None
    /\ faults = 0

\* The current timestamp when a statement runs: time does not go back.
Timestamps == {t \in clock..(clock + 1) : t <= MaxClock}

\* The variables the database primitives never touch.
dbFrame == <<CONTEST_FLOW, contests_table, dj_contest, pc, all_contests, idx,
             domjudge_contest_id, results, api_log, lock_log, call_state, faults,
             teams_table, dj_team, dj_user, dj_userrole,
             screen, exit_status, writers>>

DbConnect(manager, reachable) ==
    /\ manager = "domjudge" => dj_open < MaxOpen
    /\ Returns("connect", <<manager>>, reachable)
    /\ IF manager = "tournament"
       THEN /\ db_connection' = (reachable \/ db_connection)
            /\ UNCHANGED <<dj_connection, dj_open>>
       ELSE /\ LET after == Connect(dj_connection, dj_open, reachable)
               IN dj_connection' = after[1] /\ dj_open' = after[2]
            /\ UNCHANGED db_connection
    /\ UNCHANGED <<db_tables, tournament_state, clock>>
    /\ UNCHANGED dbFrame

DbDisconnect(manager) ==
    /\ Returns("disconnect", <<manager>>, None)
    /\ IF manager = "tournament"
       THEN /\ db_connection' = FALSE
            /\ UNCHANGED <<dj_connection, dj_open>>
       ELSE /\ LET after == Disconnect(dj_connection, dj_open)
               IN dj_connection' = after[1] /\ dj_open' = after[2]
            /\ UNCHANGED db_connection
    /\ UNCHANGED <<db_tables, tournament_state, clock>>
    /\ UNCHANGED dbFrame

DbIsConnected(manager) ==
    /\ Returns("is_connected", <<manager>>, IsConnected(ConnectionOf(manager)))
    /\ UNCHANGED <<db_connection, dj_connection, dj_open, db_tables, tournament_state,
                   clock>>
    /\ UNCHANGED dbFrame

\* execute_query with a statement that changes no row of the tables above.
DbExecuteQuery(manager, outcome) ==
    /\ LET executed == ExecuteQuery(ConnectionOf(manager), outcome)
       IN /\ op' = "execute_query"
          /\ arg' = <<manager, outcome>>
          /\ out' = executed
          /\ exc' = IF executed.raised THEN "pymysql.Error" ELSE "none"
    /\ UNCHANGED <<db_connection, dj_connection, dj_open, db_tables, tournament_state,
                   clock>>
    /\ UNCHANGED dbFrame

\* fetch_query with a SELECT that yields one row.
DbFetchQuery(manager, outcome) ==
    /\ Returns("fetch_query", <<manager, outcome>>,
               FetchQuery(ConnectionOf(manager), outcome, <<[test |-> 1]>>))
    /\ UNCHANGED <<db_connection, dj_connection, dj_open, db_tables, tournament_state,
                   clock>>
    /\ UNCHANGED dbFrame

DoInitializeDatabase(outcomes, now) ==
    /\ LET done == InitializeDatabase(db_connection, outcomes, db_tables,
                                      tournament_state, now)
       IN /\ op' = "initialize_database"
          /\ arg' = <<AllOk(outcomes)>>
          /\ out' = IF done.raised THEN <<>> ELSE done.value
          /\ exc' = IF done.raised THEN "pymysql.Error" ELSE "none"
          /\ db_tables' = done.existing
          /\ tournament_state' = done.rows
    /\ clock' = now
    /\ UNCHANGED <<db_connection, dj_connection, dj_open>>
    /\ UNCHANGED dbFrame

\* The keyword arguments given to update_tournament_state: none, a column
\* the table does not have, one or two of its columns.
UpdateInputs ==
    {[f \in {} |-> 0], [bogus |-> 1]}
    \cup {[current_round |-> r] : r \in {1, 2}}
    \cup {[current_phase |-> p] : p \in {"setup", "round_active"}}
    \cup {[current_round |-> r, current_phase |-> p] :
            r \in {1, 2}, p \in {"setup", "round_active"}}

DoUpdateTournamentState(kwargs, outcome, now) ==
    /\ LET done == UpdateTournamentState(db_connection, kwargs, outcome, db_tables,
                                         tournament_state, now)
       IN /\ op' = "update_tournament_state"
          /\ arg' = <<kwargs, outcome>>
          /\ out' = IF done.raised THEN <<>> ELSE [value |-> done.value, ran |-> done.ran]
          /\ exc' = IF done.raised THEN "pymysql.Error" ELSE "none"
          /\ tournament_state' = done.rows
    /\ clock' = now
    /\ UNCHANGED <<db_connection, dj_connection, dj_open, db_tables>>
    /\ UNCHANGED dbFrame

\* Two managers that are not connected, and a tournament database without
\* any table.
InitDb ==
    /\ InitEngine
    /\ InitIdle
    /\ db_connection = FALSE
    /\ dj_connection = FALSE
    /\ dj_open = 0
    /\ contests_table = {}
    /\ dj_contest = StoredJudgeContests(0)
    /\ db_tables = {}
    /\ tournament_state = {}
    /\ clock = 0
    /\ teams_table = {}
    /\ dj_team = {}
    /\ dj_user = {}
    /\ dj_userrole = {}

NextDb ==
    \/ \E manager \in Managers, reachable \in BOOLEAN : DbConnect(manager, reachable)
    \/ \E manager \in Managers : DbDisconnect(manager)
    \/ \E manager \in Managers : DbIsConnected(manager)
    \/ \E manager \in Managers, outcome \in Outcomes : DbExecuteQuery(manager, outcome)
    \/ \E manager \in Managers, outcome \in Outcomes : DbFetchQuery(manager, outcome)
    \/ \E outcomes \in OutcomeSeqs(Len(tables) + 1), now \in Timestamps :
          DoInitializeDatabase(outcomes, now)
    \/ \E kwargs \in UpdateInputs, outcome \in Outcomes, now \in Timestamps :
          DoUpdateTournamentState(kwargs, outcome, now)

SpecDb == InitDb /\ [][NextDb]_vars

\* The schema operations of the tournament database alone.
NextSchema ==
    \/ \E reachable \in BOOLEAN : DbConnect("tournament", reachable)
    \/ DbDisconnect("tournament")
    \/ \E outcomes \in OutcomeSeqs(Len(tables) + 1), now \in Timestamps :
          DoInitializeDatabase(outcomes, now)
    \/ \E kwargs \in UpdateInputs, outcome \in Outcomes, now \in Timestamps :
          DoUpdateTournamentState(kwargs, outcome, now)

SpecSchema == InitDb /\ [][NextSchema]_vars

(***************************************************************************)
(* core/domjudge_db.py: teams and users of the judge system                *)
(***************************************************************************)
\* MAX(id) alone, for a table with rows.
NextIdOfMax(ids) == IF ids = {} THEN 1 ELSE CHOOSE m \in ids : \A i \in ids : i <= m

\* COALESCE(MAX(id), 0) + 1 over the ids of a table.
NextId(ids) == IF ids = {} THEN 1 ELSE (CHOOSE m \in ids : \A i \in ids : i <= m) + 1

\* Once the connection has broken, every later statement of the operation
\* fails the same way.
Effective(outcomes, k) ==
    IF \E j \in 1..(k - 1) : outcomes[j] = "lost" THEN "lost" ELSE outcomes[k]

\* get_next_team_id / get_next_user_id: result['next_id'] if result else None
GetNextId(connection, outcome, ids) ==
    LET result == FetchOne(connection, outcome, <<[next_id |-> NextId(ids)]>>)
    IN IF result # None THEN Some(result[1].next_id) ELSE None

\* team_exists / user_exists: result['count'] > 0 if result else False,
\* for the count of the rows whose name is the given one.
Exists(connection, outcome, count) ==
    LET result == FetchOne(connection, outcome, <<[count |-> count]>>)
    IN IF result # None THEN result[1].count > 0 ELSE FALSE

\* create_team, with the outcomes of its three statements: the id created
\* (None on failure), whether an exception left it, and the team table.
CreateTeam(connection, outcomes, team, team_name, category_id) ==
    LET failed == [value |-> None, raised |-> FALSE, team |-> team]
        team_id == GetNextId(connection, Effective(outcomes, 2),
                             {t.teamid : t \in team})
        inserted == ExecuteQuery(connection, Effective(outcomes, 3))
    IN IF Exists(connection, Effective(outcomes, 1),
                 Cardinality({t \in team : t.name = team_name}))
       THEN failed
       ELSE IF team_id = None
            THEN failed
            ELSE IF inserted.raised
                 THEN [failed EXCEPT !.raised = TRUE]
                 ELSE IF inserted.value
                      THEN [value |-> team_id, raised |-> FALSE,
                            team |-> team \cup {[name |-> team_name,
                                                 teamid |-> team_id[1],
                                                 categoryid |-> category_id]}]
                      ELSE failed

\* role_id = 3 if role == 'team' else 1
RoleId(role) == IF role = "team" THEN 3 ELSE 1

\* username is a unique key of the judge system's user table.
UserOutcome(user, username, outcome) ==
    IF outcome = "ok" /\ \E u \in user : u.username = username THEN "error" ELSE outcome

\* create_user, with the outcomes of its four statements.  The user row
\* stays when the role insert fails.
CreateUser(connection, outcomes, user, userrole, username, name, role) ==
    LET failed == [value |-> None, raised |-> FALSE, user |-> user, userrole |-> userrole]
        user_id == GetNextId(connection, Effective(outcomes, 2),
                             {u.userid : u \in user})
        inserted == ExecuteQuery(connection,
                                 UserOutcome(user, username, Effective(outcomes, 3)))
        with_user == user \cup {[name |-> name, teamid |-> None,
                                 username |-> username, userid |-> user_id[1]]}
        assigned == ExecuteQuery(connection, Effective(outcomes, 4))
    IN IF Exists(connection, Effective(outcomes, 1),
                 Cardinality({u \in user : u.username = username}))
       THEN failed
       ELSE IF user_id = None
            THEN failed
            ELSE IF inserted.raised
                 THEN [failed EXCEPT !.raised = TRUE]
                 ELSE IF ~inserted.value
                      THEN failed
                      ELSE IF assigned.raised
                           THEN [failed EXCEPT !.raised = TRUE, !.user = with_user]
                           ELSE IF assigned.value
                                THEN [value |-> user_id, raised |-> FALSE,
                                      user |-> with_user,
                                      userrole |-> userrole \cup
                                          {[userid |-> user_id[1],
                                            roleid |-> RoleId(role)]}]
                                ELSE [failed EXCEPT !.user = with_user]

\* link_user_to_team: UPDATE user SET teamid = %s WHERE userid = %s
LinkUserToTeam(connection, outcome, user, user_id, team_id) ==
    LET updated == ExecuteQuery(connection, outcome)
    IN [value |-> updated.value,
        raised |-> updated.raised,
        user |-> IF updated.committed
                 THEN {IF u.userid = user_id THEN [u EXCEPT !.teamid = Some(team_id)]
                       ELSE u : u \in user}
                 ELSE user]

\* The outcomes of the statements k, k + 1, ... of an operation, with a
\* connection that broke earlier staying broken.
From(outcomes, k) ==
    [j \in 1..(Len(outcomes) - k + 1) |-> Effective(outcomes, j + k - 1)]

\* create_team_with_user, with the outcomes of its eight statements: the
\* dict returned (None on failure), whether an exception left it, and the
\* three tables.  Nothing undoes the team insert when a later stage fails.
CreateTeamWithUser(connection, outcomes, team, user, userrole, team_name, username) ==
    LET created == CreateTeam(connection, outcomes, team, team_name, 1)
        account == CreateUser(connection, From(outcomes, 4), user, userrole,
                              username, team_name, "team")
        linked == LinkUserToTeam(connection, Effective(outcomes, 8), account.user,
                                 account.value[1], created.value[1])
        state == [value |-> None, raised |-> FALSE, team |-> created.team,
                  user |-> user, userrole |-> userrole]
    IN IF created.raised
       THEN [state EXCEPT !.raised = TRUE]
       ELSE IF created.value = None
            THEN state
            ELSE IF account.raised
                 THEN [state EXCEPT !.raised = TRUE, !.user = account.user]
                 ELSE IF account.value = None
                      THEN [state EXCEPT !.user = account.user]
                      ELSE [value |-> IF linked.value
                                      THEN Some([team_id |-> created.value[1],
                                                 user_id |-> account.value[1]])
                                      ELSE None,
                            raised |-> linked.raised,
                            team |-> created.team,
                            user |-> linked.user,
                            userrole |-> account.userrole]

\* Team names and user names given to create_team_with_user.
TeamNames == {"Alpha", "Beta"}

UserNames == {"alpha", "beta"}

\* Rows the model lets the judge system's team table hold.
MaxJudgeTeams == 2

\* The variables create_team_with_user never touches.
judgeFrame == <<CONTEST_FLOW, db_connection, contests_table, dj_connection, dj_open,
                dj_contest, pc, all_contests, idx, domjudge_contest_id, results,
                api_log, lock_log, call_state, faults, db_tables, tournament_state,
                clock, teams_table,
                screen, exit_status, writers>>

DoCreateTeamWithUser(team_name, username, outcomes) ==
    /\ Cardinality(dj_team) < MaxJudgeTeams
    /\ LET done == CreateTeamWithUser(dj_connection, outcomes, dj_team, dj_user,
                                      dj_userrole, team_name, username)
       IN /\ op' = "create_team_with_user"
          /\ arg' = <<team_name, username>>
          /\ out' = done.value
          /\ exc' = IF done.raised THEN "pymysql.Error" ELSE "none"
          /\ dj_team' = done.team
          /\ dj_user' = done.user
          /\ dj_userrole' = done.userrole
    /\ UNCHANGED judgeFrame

NextJudge ==
    \/ \E reachable \in BOOLEAN : DbConnect("domjudge", reachable)
    \/ DbDisconnect("domjudge")
    \/ \E team_name \in TeamNames, username \in UserNames, outcomes \in OutcomeSeqs(8) :
          DoCreateTeamWithUser(team_name, username, outcomes)

SpecJudge == InitDb /\ [][NextJudge]_vars

(***************************************************************************)
(* utils/validators.py: text, team fields and the teams CSV                *)
(***************************************************************************)
\* Text read from a file or typed by the operator is a sequence of
\* one-character strings, so that str.strip and str.lower are computed.
UpperCase == <<"A", "B", "C", "D", "E", "F", "G", "H", "I", "J", "K", "L", "M",
               "N", "O", "P", "Q", "R", "S", "T", "U", "V", "W", "X", "Y", "Z">>

LowerCase == <<"a", "b", "c", "d", "e", "f", "g", "h", "i", "j", "k", "l", "m",
               "n", "o", "p", "q", "r", "s", "t", "u", "v", "w", "x", "y", "z">>

Letters == {UpperCase[k] : k \in DOMAIN UpperCase} \cup {LowerCase[k] : k \in DOMAIN LowerCase}

DigitCharacters == {Digits[k] : k \in DOMAIN Digits}

Whitespace == {" ", "\t"}

\* str.lower()
Lower(text) ==
    [i \in 1..Len(text) |->
        IF \E k \in DOMAIN UpperCase : UpperCase[k] = text[i]
        THEN LowerCase[CHOOSE k \in DOMAIN UpperCase : UpperCase[k] = text[i]]
        ELSE text[i]]

\* str.strip()
Strip(text) ==
    LET inked == {i \in 1..Len(text) : text[i] \notin Whitespace}
    IN IF inked = {}
       THEN <<>>
       ELSE SubSeq(text, CHOOSE i \in inked : \A j \in inked : i <= j,
                         CHOOSE i \in inked : \A j \in inked : j <= i)

RECURSIVE Format(_)
\* "{text}" in an f-string: the characters put together.
Format(text) == IF text = <<>> THEN "" ELSE Head(text) \o Format(Tail(text))

RECURSIVE ReprItems(_)
ReprItems(texts) ==
    IF texts = <<>> THEN ""
    ELSE "'" \o Format(Head(texts)) \o "'"
         \o (IF Tail(texts) = <<>> THEN "" ELSE ", " \o ReprItems(Tail(texts)))

\* "{list}" in an f-string, for a list of strings.
Repr(texts) == "[" \o ReprItems(texts) \o "]"

\* [a-zA-Z0-9\s\-_\.()]
NameCharacters == Letters \cup DigitCharacters \cup Whitespace \cup {"-", "_", ".", "(", ")"}

\* [a-zA-Z0-9._%+-]
LocalCharacters == Letters \cup DigitCharacters \cup {".", "_", "%", "+", "-"}

\* [a-zA-Z0-9.-]
DomainCharacters == Letters \cup DigitCharacters \cup {".", "-"}

AllIn(text, from, to, characters) == \A k \in from..to : text[k] \in characters

\* re.match(r'^[a-zA-Z0-9._%+-]+@[a-zA-Z0-9.-]+\.[a-zA-Z]{2,}$', email)
MatchesEmailPattern(email) ==
    \E at \in 1..Len(email), dot \in 1..Len(email) :
        /\ email[at] = "@"
        /\ at > 1
        /\ AllIn(email, 1, at - 1, LocalCharacters)
        /\ email[dot] = "."
        /\ dot > at + 1
        /\ AllIn(email, at + 1, dot - 1, DomainCharacters)
        /\ Len(email) >= dot + 2
        /\ AllIn(email, dot + 1, Len(email), Letters)

\* The validators of a field return the error message, None for a valid
\* value.
ValidateTeamName(name) ==
    IF name = <<>> \/ Strip(name) = <<>>
    THEN Some("Team name cannot be empty")
    ELSE LET stripped == Strip(name)
         IN IF Len(stripped) < 2
            THEN Some("Team name must be at least 2 characters")
            ELSE IF Len(stripped) > 100
            THEN Some("Team name must be less than 100 characters")
            ELSE IF ~AllIn(stripped, 1, Len(stripped), NameCharacters)
            THEN Some("Team name contains invalid characters (only letters, numbers, spaces, -, _, ., () allowed)")
            ELSE IF stripped # Strip(stripped)
            THEN Some("Team name cannot start or end with spaces")
            ELSE None

ValidateEmail(email) ==
    IF email = <<>> \/ Strip(email) = <<>>
    THEN Some("Email cannot be empty")
    ELSE LET lowered == Lower(Strip(email))
         IN IF ~MatchesEmailPattern(lowered)
            THEN Some("Invalid email format")
            ELSE IF Len(lowered) > 255
            THEN Some("Email too long (max 255 characters)")
            ELSE None

ValidateInstitution(institution) ==
    IF institution = <<>> \/ Strip(institution) = <<>>
    THEN Some("Institution cannot be empty")
    ELSE LET stripped == Strip(institution)
         IN IF Len(stripped) < 2
            THEN Some("Institution name must be at least 2 characters")
            ELSE IF Len(stripped) > 200
            THEN Some("Institution name must be less than 200 characters")
            ELSE None

\* validate_team_data: the error of each field, in the order the
\* dictionary holds them.
ValidateTeamData(team_data) ==
    [name |-> IF "name" \in DOMAIN team_data
              THEN ValidateTeamName(team_data.name)
              ELSE Some("Team name is required"),
     email |-> IF "email" \in DOMAIN team_data
               THEN ValidateEmail(team_data.email)
               ELSE Some("Email is required"),
     institution |-> IF "institution" \in DOMAIN team_data
                     THEN ValidateInstitution(team_data.institution)
                     ELSE Some("Institution is required")]
\* A file of the file system: the path it is found at, what the path
\* names, how reading it ends, and its lines as csv.reader splits them into
\* cells.
File(path, kind, read, rows) == [rows |-> rows, read |-> read, path |-> path, kind |-> kind]

\* Path.suffix: the final component's last dot and what follows it.
Suffix(path) ==
    LET slashes == {i \in 1..Len(path) : path[i] = "/"}
        start   == IF slashes = {} THEN 1
                   ELSE 1 + CHOOSE i \in slashes : \A j \in slashes : j <= i
        dots    == {i \in (start + 1)..Len(path) : path[i] = "."}
    IN IF dots = {}
       THEN <<>>
       ELSE SubSeq(path, CHOOSE i \in dots : \A j \in dots : j <= i, Len(path))

\* validate_csv_file: the error message, None for a readable file.
ValidateCsvFile(file) ==
    IF file.kind = "missing"
    THEN Some("File does not exist: " \o Format(file.path))
    ELSE IF file.kind # "file"
    THEN Some("Path is not a file: " \o Format(file.path))
    ELSE IF Lower(Suffix(file.path)) \notin {<<".", "c", "s", "v">>, <<".", "t", "x", "t">>}
    THEN Some("File must be .csv or .txt format")
    ELSE IF file.read = "encoding"
    THEN Some("File encoding error - file must be UTF-8")
    ELSE IF file.read = "permission"
    THEN Some("Permission denied - cannot read file")
    ELSE None

\* expected_headers of validate_teams_csv
expected_headers == <<<<"n", "a", "m", "e">>, <<"e", "m", "a", "i", "l">>, <<"i", "n", "s", "t", "i", "t", "u", "t", "i", "o", "n">>>>

\* str(e) of the exception open() or the first read raises.
OpenError(file) ==
    CASE file.kind = "missing" ->
            "[Errno 2] No such file or directory: '" \o Format(file.path) \o "'"
      [] file.kind = "directory" ->
            "[Errno 21] Is a directory: '" \o Format(file.path) \o "'"
      [] file.read = "permission" ->
            "[Errno 13] Permission denied: '" \o Format(file.path) \o "'"
      [] OTHER -> "'utf-8' codec can't decode byte 0xff in position 0: invalid start byte"

\* [h.strip().lower() for h in headers]
CleanHeaders(headers) == [i \in 1..Len(headers) |-> Lower(Strip(headers[i]))]

ValidateCsvHeadersAnyOrder(file, expected) ==
    IF file.kind # "file" \/ file.read # "ok"
    THEN [error |-> Some("Error reading CSV headers: " \o OpenError(file)),
          headers |-> <<>>,
          is_valid |-> FALSE]
    ELSE IF file.rows = <<>>
    THEN [error |-> Some("CSV file is empty"), headers |-> <<>>, is_valid |-> FALSE]
    ELSE LET headers == file.rows[1]
             cells(list) == {list[i] : i \in 1..Len(list)}
         IN IF cells(CleanHeaders(headers)) # cells(CleanHeaders(expected))
            THEN [error |-> Some("Headers mismatch. Expected: " \o Repr(expected)
                                 \o ", Got: " \o Repr(headers)),
                  headers |-> headers,
                  is_valid |-> FALSE]
            ELSE [error |-> None, headers |-> headers, is_valid |-> TRUE]

\* validate_csv_headers
ValidateCsvHeaders(file, expected) ==
    IF file.kind # "file" \/ file.read # "ok"
    THEN [error |-> Some("Error reading CSV headers: " \o OpenError(file)),
          headers |-> <<>>,
          is_valid |-> FALSE]
    ELSE IF file.rows = <<>>
    THEN [error |-> Some("CSV file is empty"), headers |-> <<>>, is_valid |-> FALSE]
    ELSE LET headers == file.rows[1]
         IN IF CleanHeaders(headers) # CleanHeaders(expected)
            THEN [error |-> Some("Headers mismatch. Expected: " \o Repr(expected)
                                 \o ", Got: " \o Repr(headers)),
                  headers |-> headers,
                  is_valid |-> FALSE]
            ELSE [error |-> None, headers |-> headers, is_valid |-> TRUE]

\* csv.DictReader's row.get(key, default): the cell under the column whose
\* header cell is the key as written in the file; a row that ends before
\* the column holds None there; without such a column, the default.
RowGet(fieldnames, row, key, default) ==
    LET columns == {i \in 1..Len(fieldnames) : fieldnames[i] = key}
    IN IF columns = {}
       THEN Some(default)
       ELSE LET column == CHOOSE i \in columns : \A j \in columns : j <= i
            IN IF column <= Len(row) THEN Some(row[column]) ELSE None

\* The error lines of the fields of a row, name, email, institution.
FieldErrors(row_num, field_errors) ==
    LET line(field) ==
            IF field_errors[field] # None
            THEN <<"Row " \o ToStr(row_num) \o ", " \o field \o ": " \o field_errors[field][1]>>
            ELSE <<>>
    IN line("name") \o line("email") \o line("institution")

DuplicateName(row_num, name) ==
    "Row " \o ToStr(row_num) \o ": Duplicate team name '" \o Format(name) \o "'"

DuplicateEmail(row_num, email) ==
    "Row " \o ToStr(row_num) \o ": Duplicate email '" \o Format(email) \o "'"

\* if row_errors: errors.extend(row_errors), else valid_teams.append(team_data);
\* a name or an email goes to the seen ones unless it was reported.
FileRow(team_data, row_num, seen, duplicate_name, duplicate_email, row_errors) ==
    [errors |-> seen.errors \o row_errors,
     raised |-> FALSE,
     valid_teams |-> IF row_errors # <<>>
                     THEN seen.valid_teams
                     ELSE Append(seen.valid_teams,
                                 [name |-> team_data.name,
                                  email |-> team_data.email,
                                  institution |-> team_data.institution,
                                  row_number |-> row_num]),
     seen_names |-> IF duplicate_name THEN seen.seen_names
                    ELSE seen.seen_names \cup {team_data.name},
     seen_emails |-> IF duplicate_email THEN seen.seen_emails
                     ELSE seen.seen_emails \cup {team_data.email}]

\* The checks of a cleaned row: its fields, then its name and its email
\* against the ones seen.
CheckRow(team_data, row_num, seen) ==
    LET duplicate_name  == team_data.name # <<>> /\ team_data.name \in seen.seen_names
        duplicate_email == team_data.email # <<>> /\ team_data.email \in seen.seen_emails
    IN FileRow(team_data, row_num, seen, duplicate_name, duplicate_email,
               FieldErrors(row_num, ValidateTeamData(team_data))
               \o (IF duplicate_name
                   THEN <<DuplicateName(row_num, team_data.name)>> ELSE <<>>)
               \o (IF duplicate_email
                   THEN <<DuplicateEmail(row_num, team_data.email)>> ELSE <<>>))

\* The body of the loop over the data rows in validate_teams_csv.  A cell
\* that is None has no strip: the AttributeError leaves the loop.
ValidateRow(fieldnames, row, row_num, seen) ==
    LET name        == RowGet(fieldnames, row, <<"n", "a", "m", "e">>, <<>>)
        email       == RowGet(fieldnames, row, <<"e", "m", "a", "i", "l">>, <<>>)
        institution == RowGet(fieldnames, row, <<"i", "n", "s", "t", "i", "t", "u", "t", "i", "o", "n">>, <<>>)
    IN IF name = None \/ email = None \/ institution = None
       THEN [seen EXCEPT !.raised = TRUE]
       ELSE CheckRow([name |-> Strip(name[1]),
                      email |-> Lower(Strip(email[1])),
                      institution |-> Strip(institution[1])],
                     row_num, seen)

RECURSIVE ValidateRows(_, _, _, _)
\* for row_num, row in enumerate(reader, start=2)
ValidateRows(fieldnames, rows, row_num, seen) ==
    IF rows = <<>> \/ seen.raised
    THEN seen
    ELSE ValidateRows(fieldnames, Tail(rows), row_num + 1,
                      ValidateRow(fieldnames, Head(rows), row_num, seen))

\* The end of validate_teams_csv, after the loop over the data rows.
Conclude(read) ==
    IF read.raised
    THEN [errors |-> Append(read.errors,
                            "Error reading CSV data: 'NoneType' object has no attribute 'strip'"),
          is_valid |-> FALSE,
          valid_teams |-> <<>>]
    ELSE LET errors == IF read.valid_teams = <<>>
                       THEN Append(read.errors, "No valid teams found in CSV file")
                       ELSE read.errors
         IN [errors |-> errors,
             is_valid |-> errors = <<>>,
             valid_teams |-> read.valid_teams]

\* validate_teams_csv: (is_valid, error_messages, valid_teams)
ValidateTeamsCsv(file) ==
    LET file_error == ValidateCsvFile(file)
        checked    == ValidateCsvHeaders(file, expected_headers)
    IN IF file_error # None
       THEN [errors |-> <<file_error[1]>>, is_valid |-> FALSE, valid_teams |-> <<>>]
       ELSE IF ~checked.is_valid
       THEN [errors |-> <<checked.error[1]>>, is_valid |-> FALSE, valid_teams |-> <<>>]
       ELSE Conclude(ValidateRows(file.rows[1], Tail(file.rows), 2,
                                  [errors |-> <<>>, raised |-> FALSE,
                                   valid_teams |-> <<>>, seen_names |-> {},
                                   seen_emails |-> {}]))

\* The first lines of the sample files: the expected one, one in capitals,
\* one with blanks and capitals, one without institution, one in another
\* order, and a blank line.
SampleHeaders ==
    {<<<<"n", "a", "m", "e">>, <<"e", "m", "a", "i", "l">>, <<"i", "n", "s", "t", "i", "t", "u", "t", "i", "o", "n">>>>,
     <<<<"N", "a", "m", "e">>, <<"E", "m", "a", "i", "l">>, <<"I", "n", "s", "t", "i", "t", "u", "t", "i", "o", "n">>>>,
     <<<<" ", "n", "a", "m", "e">>, <<"E", "M", "A", "I", "L", " ">>, <<"i", "n", "s", "t", "i", "t", "u", "t", "i", "o", "n">>>>,
     <<<<"N", "a", "m", "e">>, <<"E", "m", "a", "i", "l">>>>,
     <<<<"e", "m", "a", "i", "l">>, <<"n", "a", "m", "e">>, <<"i", "n", "s", "t", "i", "t", "u", "t", "i", "o", "n">>>>,
     <<>>}

\* Their data rows: two teams; a second Alpha with another email; a team
\* with Alpha's email in capitals; a row without a name; a name of one
\* letter; a row that ends after the email.
SampleRows ==
    {<<<<"A", "l", "p", "h", "a">>, <<"a", "@", "x", ".", "i", "o">>, <<"U", "n", "i">>>>,
     <<<<"B", "e", "t", "a">>, <<"b", "@", "x", ".", "i", "o">>, <<"U", "n", "i">>>>,
     <<<<"A", "l", "p", "h", "a">>, <<"c", "@", "x", ".", "i", "o">>, <<"U", "n", "i">>>>,
     <<<<"G", "a", "m", "m", "a">>, <<"A", "@", "X", ".", "i", "o">>, <<"U", "n", "i">>>>,
     <<<<>>, <<"d", "@", "x", ".", "i", "o">>, <<"U", "n", "i">>>>,
     <<<<"A">>, <<"e", "@", "x", ".", "i", "o">>, <<"U", "n", "i">>>>,
     <<<<"D", "e", "l", "t", "a">>, <<"f", "@", "x", ".", "i", "o">>>>}

\* Data rows of a sample file.
MaxRows == 2

RowLists(sample, n) == UNION {[1..k -> sample] : k \in 0..n}

CsvPath == <<"d", "a", "t", "a", "/", "t", "e", "a", "m", "s", ".", "c", "s", "v">>

\* Files the validators are given.
SampleFiles ==
    {File(CsvPath, "file", "ok", <<headers>> \o rows) :
        headers \in SampleHeaders, rows \in RowLists(SampleRows, MaxRows)}
    \cup {File(CsvPath, "file", "ok", <<>>),
          File(CsvPath, "missing", "ok", <<>>),
          File(<<"d", "a", "t", "a">>, "directory", "ok", <<>>),
          File(<<"d", "a", "t", "a", "/", "t", "e", "a", "m", "s", ".", "X", "L", "S", "X">>, "file", "ok", <<expected_headers>>),
          File(<<"d", "a", "t", "a", "/", "t", "e", "a", "m", "s", ".", "T", "X", "T">>, "file", "ok", <<expected_headers>>),
          File(CsvPath, "file", "encoding", <<expected_headers>>),
          File(CsvPath, "file", "permission", <<expected_headers>>)}

\* The variables the validators never touch.
csvFrame == <<CONTEST_FLOW, db_connection, contests_table, dj_connection, dj_open,
              dj_contest, pc, all_contests, idx, domjudge_contest_id, results,
              api_log, lock_log, call_state, faults, db_tables, tournament_state,
              clock, teams_table, dj_team, dj_user, dj_userrole,
              screen, exit_status, writers>>

DoValidateCsvFile ==
    /\ op = "input"
    /\ Returns("validate_csv_file", arg, ValidateCsvFile(arg[1]))
    /\ UNCHANGED csvFrame

DoValidateCsvHeaders ==
    /\ op = "input"
    /\ Returns("validate_csv_headers", arg, ValidateCsvHeaders(arg[1], expected_headers))
    /\ UNCHANGED csvFrame

DoValidateTeamsCsv ==
    /\ op = "input"
    /\ Returns("validate_teams_csv", arg, ValidateTeamsCsv(arg[1]))
    /\ UNCHANGED csvFrame

\* A file to validate, and nothing validated yet.
InitCsv ==
    /\ InitIdle
    /\ screen = "none"
    /\ exit_status = None
    /\ writers = <<>>
    /\ InitStore
    /\ CONTEST_FLOW = InitializeContestFlowMapping
    /\ op = "input"
    /\ arg \in {<<file>> : file \in SampleFiles}
    /\ out = <<>>
    /\ exc = "none"
    /\ db_connection = FALSE
    /\ dj_connection = FALSE
    /\ dj_open = 0
    /\ contests_table = {}
    /\ dj_contest = StoredJudgeContests(0)

NextCsv ==
    \/ DoValidateCsvFile
    \/ DoValidateCsvHeaders
    \/ DoValidateTeamsCsv

SpecCsv == InitCsv /\ [][NextCsv]_vars

(***************************************************************************)
(* menus/setup_menu.py: loading the teams from a CSV file                  *)
(***************************************************************************)
ValidateYesNoDefaultYes(response) ==
    IF response = <<>>
    THEN [is_valid |-> TRUE, is_yes |-> TRUE]
    ELSE LET answer == Lower(Strip(response))
         IN IF answer \in {<<"y">>, <<"y", "e", "s">>, <<"t", "r", "u", "e">>, <<"1">>}
            THEN [is_valid |-> TRUE, is_yes |-> TRUE]
            ELSE IF answer \in {<<"n">>, <<"n", "o">>, <<"f", "a", "l", "s", "e">>, <<"0">>}
            THEN [is_valid |-> TRUE, is_yes |-> FALSE]
            ELSE [is_valid |-> FALSE, is_yes |-> FALSE]

\* validate_yes_no: (is_valid, is_yes)
ValidateYesNo(response) ==
    IF response = <<>>
    THEN [is_valid |-> FALSE, is_yes |-> FALSE]
    ELSE LET answer == Lower(Strip(response))
         IN IF answer \in {<<"y">>, <<"y", "e", "s">>, <<"t", "r", "u", "e">>, <<"1">>}
            THEN [is_valid |-> TRUE, is_yes |-> TRUE]
            ELSE IF answer \in {<<"n">>, <<"n", "o">>, <<"f", "a", "l", "s", "e">>, <<"0">>}
            THEN [is_valid |-> TRUE, is_yes |-> FALSE]
            ELSE [is_valid |-> FALSE, is_yes |-> FALSE]

\* validate_file_path: the error message, None for a path it accepts.
ValidateFilePath(path) ==
    IF path = <<>> \/ Strip(path) = <<>>
    THEN Some("File path cannot be empty")
    ELSE IF Len(Strip(path)) > 500
    THEN Some("File path too long")
    ELSE None

RECURSIVE ConfirmAction(_)
\* _confirm_action over the lines the operator types at its prompt: the
\* answer if it is a yes or a no, False for an empty line, and the prompt
\* again for anything else.
ConfirmAction(responses) ==
    LET response == Strip(Head(responses))
        checked  == ValidateYesNo(response)
    IN IF checked.is_valid
       THEN checked.is_yes
       ELSE IF response = <<>>
       THEN FALSE
       ELSE ConfirmAction(Tail(responses))

\* A row of teams as INSERT INTO teams (name) leaves it.
TeamRow(name) == [name |-> name, domjudge_team_id |-> None, domjudge_user_id |-> None]

\* INSERT INTO teams (name) VALUES (%s): name is UNIQUE, under the
\* case-insensitive collation of the table's character set.
InsertTeamOutcome(rows, name, outcome) ==
    IF outcome = "ok" /\ \E row \in rows : Lower(row.name) = Lower(name)
    THEN "error"
    ELSE outcome

RECURSIVE InsertTeams(_, _, _, _, _, _)
\* The loop over valid_teams: the result of execute_query is not looked at.
InsertTeams(connection, existing, outcomes, k, valid_teams, rows) ==
    IF k > Len(valid_teams)
    THEN [raised |-> FALSE, rows |-> rows]
    ELSE LET name     == valid_teams[k].name
             executed == ExecuteQuery(connection,
                             InsertTeamOutcome(rows, name,
                                 OnTable("teams", existing, Effective(outcomes, k + 1))))
             after    == IF executed.committed THEN rows \cup {TeamRow(name)} ELSE rows
         IN IF executed.raised
            THEN [raised |-> TRUE, rows |-> after]
            ELSE InsertTeams(connection, existing, outcomes, k + 1, valid_teams, after)

\* What _load_teams_from_csv leaves: the last message printed, whether an
\* exception left it, and the rows of teams.
Loaded(printed, raised, rows) == [raised |-> raised, rows |-> rows, printed |-> printed]

\* _load_teams_from_csv once the file is validated: the confirmation, the
\* DELETE, and the INSERT statements.
LoadValidated(connection, existing, rows, validated, responses, outcomes) ==
    LET cleared  == ExecuteQuery(connection, OnTable("teams", existing, outcomes[1]))
        inserted == InsertTeams(connection, existing, outcomes, 1,
                                validated.valid_teams, {})
    IN IF ~validated.is_valid
       THEN Loaded("CSV validation failed", FALSE, rows)
       ELSE IF ~ConfirmAction(responses)
       THEN Loaded("Operation cancelled.", FALSE, rows)
       ELSE IF cleared.raised
       THEN Loaded("Operation failed", TRUE, rows)
       ELSE IF ~cleared.value
       THEN Loaded("Failed to clear existing teams.", FALSE, rows)
       ELSE Loaded(IF inserted.raised THEN "Operation failed" ELSE "Successfully loaded",
                   inserted.raised, inserted.rows)

\* _load_teams_from_csv: the line typed at the path prompt, the file found
\* at that path, the lines typed at the confirmation prompt, and how the
\* DELETE and the INSERT statements end.
LoadTeamsFromCsv(connection, existing, rows, typed, file, responses, outcomes) ==
    IF ValidateFilePath(Strip(typed)) # None
    THEN Loaded("Invalid file path", FALSE, rows)
    ELSE LoadValidated(connection, existing, rows, ValidateTeamsCsv(file),
                       responses, outcomes)

\* Lines the operator types at the path prompt.
PathInputs == {<<>>, <<" ", " ">>, <<" ", "d", "a", "t", "a", "/", "t", "e", "a", "m", "s", ".", "c", "s", "v", " ">>}

\* Lines the operator types at the confirmation prompt.
Answers == {<<"y">>, <<" ", "Y", "e", "s", " ">>, <<"n">>, <<>>, <<" ">>, <<"m", "a", "y", "b", "e">>}

\* Lines the model lets one confirmation prompt read.
MaxResponses == 2

\* The lines typed until the prompt returns.
ResponseSeqs ==
    {responses \in UNION {[1..n -> Answers] : n \in 1..MaxResponses} :
        /\ \A k \in 1..(Len(responses) - 1) :
              LET response == Strip(responses[k])
              IN ~ValidateYesNo(response).is_valid /\ response # <<>>
        /\ LET response == Strip(responses[Len(responses)])
           IN ValidateYesNo(response).is_valid \/ response = <<>>}

\* Data rows of a file given to the import.
MaxImportRows == 2

ImportHeaders ==
    {<<<<"n", "a", "m", "e">>, <<"e", "m", "a", "i", "l">>, <<"i", "n", "s", "t", "i", "t", "u", "t", "i", "o", "n">>>>,
     <<<<"N", "a", "m", "e">>, <<"E", "m", "a", "i", "l">>>>}

ImportRows ==
    {<<<<"A", "l", "p", "h", "a">>, <<"a", "@", "x", ".", "i", "o">>, <<"U", "n", "i">>>>,
     <<<<"B", "e", "t", "a">>, <<"b", "@", "x", ".", "i", "o">>, <<"U", "n", "i">>>>,
     <<<<"A", "l", "p", "h", "a">>, <<"c", "@", "x", ".", "i", "o">>, <<"U", "n", "i">>>>}

\* What the file system holds at a path.
FilesAt(path) ==
    IF path = CsvPath
    THEN {File(path, "file", "ok", <<headers>> \o rows) :
             headers \in ImportHeaders, rows \in RowLists(ImportRows, MaxImportRows)}
         \cup {File(path, "missing", "ok", <<>>)}
    ELSE {File(path, "missing", "ok", <<>>)}

\* The confirmation prompt is shown for a file that passed the validation,
\* and statements run after a yes.
PromptedResponses(typed, file) ==
    IF ValidateFilePath(Strip(typed)) = None /\ ValidateTeamsCsv(file).is_valid
    THEN ResponseSeqs
    ELSE {<<>>}

StatementOutcomes(file, responses) ==
    IF responses # <<>> /\ ConfirmAction(responses)
    THEN OutcomeSeqs(1 + Len(ValidateTeamsCsv(file).valid_teams))
    ELSE {<<>>}

\* The variables _load_teams_from_csv never touches.
importFrame == <<CONTEST_FLOW, db_connection, contests_table, dj_connection, dj_open,
                 dj_contest, pc, all_contests, idx, domjudge_contest_id, results,
                 api_log, lock_log, call_state, faults, db_tables, tournament_state,
                 clock, dj_team, dj_user, dj_userrole,
                 screen, exit_status, writers>>

DoLoadTeamsFromCsv(typed, file, responses, outcomes) ==
    /\ op = "init"
    /\ LET done == LoadTeamsFromCsv(db_connection, db_tables, teams_table,
                                    typed, file, responses, outcomes)
       IN /\ op' = "load_teams_from_csv"
          /\ arg' = <<typed, file, responses>>
          /\ out' = done.printed
          /\ exc' = IF done.raised THEN "pymysql.Error" ELSE "none"
          /\ teams_table' = done.rows
    /\ UNCHANGED importFrame

\* Tables of teams that earlier imports have left.
LoadedTeams == SUBSET {TeamRow(<<"A", "l", "p", "h", "a">>), TeamRow(<<"O", "m", "e", "g", "a">>)}

\* An initialized tournament database, with the teams of an earlier import
\* or none; the application may or may not be connected to it.  One import
\* is followed from there.
InitImport ==
    /\ InitEngine
    /\ InitIdle
    /\ db_tables = {tables[k] : k \in 1..Len(tables)}
    /\ tournament_state = {InitStateRow(0)}
    /\ clock = 0
    /\ teams_table \in LoadedTeams
    /\ dj_team = {}
    /\ dj_user = {}
    /\ dj_userrole = {}
    /\ db_connection \in BOOLEAN
    /\ dj_connection = FALSE
    /\ dj_open = 0
    /\ contests_table = {}
    /\ dj_contest = StoredJudgeContests(0)

NextImport ==
    \E typed \in PathInputs :
       \E file \in FilesAt(Strip(typed)) :
          \E responses \in PromptedResponses(typed, file) :
             \E outcomes \in StatementOutcomes(file, responses) :
                DoLoadTeamsFromCsv(typed, file, responses, outcomes)

SpecImport == InitImport /\ [][NextImport]_vars

(***************************************************************************)
(* utils/validators.py: generate_username                                  *)
(***************************************************************************)
\* The longest tail of a drawn team name after its run of letters.
MaxNameTail == 3

\* re.sub(r'[^a-zA-Z0-9]', '_', text)
ReplaceNonAlphanumeric(text) ==
    [i \in 1..Len(text) |->
        IF text[i] \in Letters \cup DigitCharacters THEN text[i] ELSE "_"]

RECURSIVE CollapseUnderscores(_)
\* re.sub(r'_+', '_', text)
CollapseUnderscores(text) ==
    IF Len(text) < 2 THEN text
    ELSE IF text[1] = "_" /\ text[2] = "_" THEN CollapseUnderscores(Tail(text))
    ELSE <<text[1]>> \o CollapseUnderscores(Tail(text))

StripUnderscoresLeading(text) ==
    LET kept == {i \in 1..Len(text) : text[i] # "_"}
    IN IF kept = {}
       THEN <<>>
       ELSE SubSeq(text, CHOOSE i \in kept : \A j \in kept : i <= j, Len(text))

\* text.strip('_')
StripUnderscores(text) ==
    LET kept == {i \in 1..Len(text) : text[i] # "_"}
    IN IF kept = {}
       THEN <<>>
       ELSE SubSeq(text, CHOOSE i \in kept : \A j \in kept : i <= j,
                         CHOOSE i \in kept : \A j \in kept : j <= i)

\* The username before the length rules of generate_username.
SanitizedName(team_name) ==
    StripUnderscores(CollapseUnderscores(ReplaceNonAlphanumeric(Lower(team_name))))

GenerateUsername(team_name) ==
    LET username == SanitizedName(team_name)
        prefixed == IF Len(username) < 3 THEN <<"t", "e", "a", "m", "_">> \o username ELSE username
    IN IF Len(prefixed) > 50 THEN SubSeq(prefixed, 1, 50) ELSE prefixed

\* Team names: a run of letters, none or about as long as the limit of the
\* username, followed by a few characters of each kind.
NameTails ==
    UNION {[1..n -> {"A", "b", "1", " ", "@", "_"}] : n \in 0..MaxNameTail}

TeamNameInputs ==
    {[i \in 1..n |-> "a"] \o tail : n \in {0, 46, 47, 48, 49, 50}, tail \in NameTails}
    \cup {<<"T", "e", "a", "m", " ", "A", "l", "p", "h", "a", " ", "#", "1", "!">>, <<"@", "@">>}

DoGenerateUsername ==
    /\ op = "input"
    /\ Returns("generate_username", arg, GenerateUsername(arg[1]))
    /\ UNCHANGED csvFrame

\* A team name, and no username generated yet.
InitUsername ==
    /\ InitIdle
    /\ screen = "none"
    /\ exit_status = None
    /\ writers = <<>>
    /\ InitStore
    /\ CONTEST_FLOW = InitializeContestFlowMapping
    /\ op = "input"
    /\ arg \in {<<team_name>> : team_name \in TeamNameInputs}
    /\ out = <<>>
    /\ exc = "none"
    /\ db_connection = FALSE
    /\ dj_connection = FALSE
    /\ dj_open = 0
    /\ contests_table = {}
    /\ dj_contest = StoredJudgeContests(0)

NextUsername == DoGenerateUsername

SpecUsername == InitUsername /\ [][NextUsername]_vars

(***************************************************************************)
(* menus/setup_menu.py: creating the judge-system accounts of the teams    *)
(***************************************************************************)
\* A row of the teams table with its id; the judge-system ids are None or
\* present.
LocalTeam(id, name, domjudge_team, domjudge_user) ==
    [name |-> name, id |-> id, domjudge_team_id |-> domjudge_team,
     domjudge_user_id |-> domjudge_user]

\* DOMjudgeAPI.test_connection(self) has no parameter besides self: a call
\* that passes an argument raises TypeError before the body runs.  Called
\* without one it tells whether GET /info gave a result.
TestConnection(arguments, reachable) ==
    IF Len(arguments) # 0
    THEN [value |-> FALSE, raised |-> TRUE]
    ELSE [value |-> reachable, raised |-> FALSE]

\* POST of a team to the judge system: the team with the id asked for, or
\* None when the request fails.
ApiCreateTeam(judge_teams, team_data, reply) ==
    IF reply = "ok"
    THEN [value |-> Some([id |-> team_data.id]),
          judge_teams |-> judge_teams \cup {[name |-> team_data.name,
                                             teamid |-> team_data.id,
                                             categoryid |-> 3]}]
    ELSE [value |-> None, judge_teams |-> judge_teams]

\* POST of a user to the judge system: the user with the next id, or None
\* when the request fails.
ApiCreateUser(judge_users, user_data, reply) ==
    IF reply = "ok"
    THEN LET userid == NextId({u.userid : u \in judge_users})
         IN [value |-> Some([id |-> userid]),
             judge_users |-> judge_users \cup {[name |-> user_data.name,
                                                teamid |-> user_data.team_id,
                                                username |-> user_data.username,
                                                userid |-> userid]}]
    ELSE [value |-> None, judge_users |-> judge_users]

\* SELECT * FROM teams WHERE domjudge_team_id IS NULL, in the order of the
\* ids.
TeamsWithoutAccount(rows) ==
    LET lacking == {r \in rows : r.domjudge_team_id = None}
    IN [k \in 1..Cardinality(lacking) |->
          CHOOSE r \in lacking : Cardinality({q \in lacking : q.id <= r.id}) = k]

\* UPDATE teams SET domjudge_team_id = %s, domjudge_user_id = %s WHERE id = %s
SetAccountIds(rows, id, team_id, user_id) ==
    {IF r.id = id
     THEN [r EXCEPT !.domjudge_team_id = Some(team_id), !.domjudge_user_id = Some(user_id)]
     ELSE r : r \in rows}

\* One pass of the loop "for i, team in enumerate(teams_to_process)".
AccountsStep(connection, team, reply, state) ==
    LET username == GenerateUsername(team.name)
        team_result == ApiCreateTeam(state.judge_teams,
                          [name |-> team.name, id |-> team.id, label |-> username],
                          reply.team)
        attempted == [state EXCEPT !.attempted = Append(@, team.name),
                                   !.judge_teams = team_result.judge_teams]
    IN IF team_result.value = None
       THEN [attempted EXCEPT !.failed_teams = Append(@,
                [name |-> team.name, step |-> "team_creation"])]
       ELSE LET user_result == ApiCreateUser(state.judge_users,
                                  [name |-> team.name, team_id |-> team_result.value[1].id,
                                   username |-> username],
                                  reply.user)
                created == [attempted EXCEPT !.judge_users = user_result.judge_users]
            IN IF user_result.value = None
               THEN [created EXCEPT !.failed_teams = Append(@,
                        [name |-> team.name, domjudge_team_id |-> team_result.value[1].id,
                         step |-> "user_creation"])]
               ELSE LET executed == ExecuteQuery(connection, reply.update)
                    IN IF executed.raised
                       THEN [created EXCEPT !.raised = "pymysql.Error"]
                       ELSE IF ~executed.value
                       THEN [created EXCEPT !.failed_teams = Append(@,
                                [name |-> team.name, domjudge_team_id |-> team_result.value[1].id,
                                 domjudge_user_id |-> user_result.value[1].id,
                                 step |-> "database_update"])]
                       ELSE [created EXCEPT
                                !.rows = SetAccountIds(@, team.id,
                                            team_result.value[1].id,
                                            user_result.value[1].id),
                                !.successful_count = @ + 1]

RECURSIVE AccountsLoop(_, _, _, _, _)
AccountsLoop(connection, teams, k, replies, state) ==
    IF k > Len(teams) \/ state.raised # "none"
    THEN state
    ELSE AccountsLoop(connection, teams, k + 1, replies,
                      AccountsStep(connection, teams[k], replies[k], state))

\* _pause_for_user: input() returns, or a KeyboardInterrupt is printed as a
\* goodbye and raised again.
PauseForUser(key, state) ==
    IF key = "interrupt" /\ state.raised = "none"
    THEN [state EXCEPT !.raised = "KeyboardInterrupt"]
    ELSE state

\* _create_domjudge_accounts
CreateDomjudgeAccounts(connection, rows, judge_teams, judge_users, reachable, fetched, replies, key) ==
    LET untouched == [raised |-> "none", rows |-> rows, printed |-> "",
                      judge_teams |-> judge_teams, judge_users |-> judge_users,
                      attempted |-> <<>>, failed_teams |-> <<>>,
                      successful_count |-> 0]
    IN IF ~IsConnected(connection)
       THEN PauseForUser(key, [untouched EXCEPT !.printed = "Tournament database not connected. Please connect first."])
       ELSE IF TestConnection(<<TRUE>>, reachable).raised
       THEN [untouched EXCEPT !.raised = "TypeError"]
       ELSE IF ~TestConnection(<<TRUE>>, reachable).value
       THEN PauseForUser(key, [untouched EXCEPT !.printed = "Could not connect to DOMjudge API. Please check configuration."])
       ELSE IF FetchQuery(connection, fetched, TeamsWithoutAccount(rows)).value \in {None, Some(<<>>)}
       THEN PauseForUser(key, [untouched EXCEPT !.printed = "All teams already have DOMjudge accounts."])
       ELSE PauseForUser(key,
               AccountsLoop(connection, TeamsWithoutAccount(rows), 1, replies,
                            [untouched EXCEPT !.printed = "Account Creation Complete"]))

\* The teams in the tournament database: some have their accounts.
LocalTeamSets ==
    {rows \in SUBSET ({LocalTeam(1, <<"A", "l", "p", "h", "a">>, None, None), LocalTeam(1, <<"A", "l", "p", "h", "a">>, Some(1), Some(1)),
                       LocalTeam(2, <<"@", "@">>, None, None), LocalTeam(2, <<"@", "@">>, Some(2), Some(2)),
                       LocalTeam(3, <<"T", "e", "a", "m", " ", "B", "e", "t", "a">>, None, None), LocalTeam(3, <<"T", "e", "a", "m", " ", "B", "e", "t", "a">>, Some(3), Some(3))}) :
        \A r, q \in rows : r.id = q.id => r = q}

\* What the judge system and the tournament database answer for one team.
AccountReplies ==
    [team : {"ok", "fail"}, user : {"ok", "fail"}, update : Outcomes]

accountsFrame == <<CONTEST_FLOW, contests_table, dj_connection, dj_open,
                   dj_contest, pc, all_contests, idx, domjudge_contest_id, results,
                   api_log, lock_log, call_state, faults, db_tables, tournament_state,
                   clock, dj_userrole, db_connection,
                   screen, exit_status, writers>>

DoCreateDomjudgeAccounts(reachable, fetched, replies, key) ==
    LET done == CreateDomjudgeAccounts(db_connection, teams_table, dj_team, dj_user,
                                       reachable, fetched, replies, key)
    IN /\ op = "init"
       /\ op' = "create_domjudge_accounts"
       /\ arg' = <<db_connection, teams_table, reachable, fetched>>
       /\ out' = [printed |-> done.printed, attempted |-> done.attempted,
                  failed_teams |-> done.failed_teams,
                  successful_count |-> done.successful_count]
       /\ exc' = done.raised
       /\ teams_table' = done.rows
       /\ dj_team' = done.judge_teams
       /\ dj_user' = done.judge_users
       /\ UNCHANGED accountsFrame

\* The menu with a database manager and some teams loaded.
InitAccounts ==
    /\ InitEngine
    /\ InitIdle
    /\ db_tables = {tables[k] : k \in 1..Len(tables)}
    /\ tournament_state = {InitStateRow(0)}
    /\ clock = 0
    /\ teams_table \in LocalTeamSets
    /\ dj_team = {}
    /\ dj_user = {}
    /\ dj_userrole = {}
    /\ db_connection \in BOOLEAN
    /\ dj_connection = FALSE
    /\ dj_open = 0
    /\ contests_table = {}
    /\ dj_contest = StoredJudgeContests(0)

NextAccounts ==
    \E reachable \in BOOLEAN, fetched \in {"ok", "error"}, key \in {"enter", "interrupt"} :
       \E replies \in [1..Len(TeamsWithoutAccount(teams_table)) -> AccountReplies] :
          DoCreateDomjudgeAccounts(reachable, fetched, replies, key)

SpecAccounts == InitAccounts /\ [][NextAccounts]_vars

(***************************************************************************)
(* menus/menu_system.py, menus/setup_menu.py: the interactive shell        *)
(***************************************************************************)
\* What the terminal gives to one call of input(): a line, Ctrl-C
\* (KeyboardInterrupt) or the end of the input (EOFError).
Line(text) == [text |-> text, kind |-> "line"]

Interrupt == [text |-> <<>>, kind |-> "interrupt"]

EndOfFile == [text |-> <<>>, kind |-> "eof"]

RECURSIVE DecimalValue(_)
DecimalValue(digits) ==
    IF digits = <<>> THEN 0
    ELSE 10 * DecimalValue(SubSeq(digits, 1, Len(digits) - 1))
         + (CHOOSE k \in DOMAIN Digits : Digits[k] = digits[Len(digits)]) - 1

\* int(choice) on a line of ASCII characters: blanks around, a sign, and
\* decimal digits; ValueError (None) otherwise.
ParseInt(text) ==
    LET stripped == Strip(text)
        signed   == stripped # <<>> /\ stripped[1] \in {"+", "-"}
        digits   == IF signed THEN Tail(stripped) ELSE stripped
    IN IF digits = <<>> \/ ~AllIn(digits, 1, Len(digits), DigitCharacters)
       THEN None
       ELSE IF signed /\ stripped[1] = "-"
       THEN Some(0 - DecimalValue(digits))
       ELSE Some(DecimalValue(digits))

RECURSIVE ReprNumbers(_)
ReprNumbers(numbers) ==
    IF numbers = <<>> THEN ""
    ELSE ToStr(Head(numbers))
         \o (IF Tail(numbers) = <<>> THEN "" ELSE ", " \o ReprNumbers(Tail(numbers)))

\* InputValidator.validate_choice: the error message, None for a valid
\* choice.
ValidateChoice(choice, valid_choices) ==
    IF choice = <<>>
    THEN Some("Choice cannot be empty")
    ELSE IF ParseInt(choice) = None
    THEN Some("Choice must be a number")
    ELSE IF \E k \in 1..Len(valid_choices) : valid_choices[k] = ParseInt(choice)[1]
    THEN None
    ELSE Some("Choice must be one of: [" \o ReprNumbers(valid_choices) \o "]")

\* What one pass of the loop of a choice prompt does: it returns the
\* choice ("return"), prompts again ("again"), leaves through
\* cleanup_and_exit ("exit") or raises ("raise").
Prompted(outcome, choice, raised, printed) ==
    [outcome |-> outcome, raised |-> raised, printed |-> printed, choice |-> choice]

\* MenuSystem.get_user_choice, one pass of its loop.  The cross mark that
\* begins its error line is written out in words.
GetUserChoice(typed, valid_choices, allow_back) ==
    IF typed.kind = "interrupt"
    THEN Prompted("exit", <<>>, "none", "Goodbye!")
    ELSE IF typed.kind = "eof"
    THEN Prompted("raise", <<>>, "EOFError", "")
    ELSE LET choice == Lower(Strip(typed.text))
         IN IF choice = <<"b">> /\ allow_back
            THEN Prompted("return", choice, "none", "")
            ELSE IF choice \in {<<"q">>, <<"q", "u", "i", "t">>, <<"e", "x", "i", "t">>}
            THEN Prompted("exit", <<>>, "none", "")
            ELSE IF ValidateChoice(choice, valid_choices) = None
            THEN Prompted("return", choice, "none", "")
            ELSE Prompted("again", <<>>, "none",
                          "[cross mark] " \o ValidateChoice(choice, valid_choices)[1])

\* SetupMenu._get_user_choice, one pass of its loop.
SetupGetUserChoice(typed, valid_choices) ==
    IF typed.kind = "interrupt"
    THEN Prompted("raise", <<>>, "KeyboardInterrupt", "Goodbye!")
    ELSE IF typed.kind = "eof"
    THEN Prompted("raise", <<>>, "EOFError", "")
    ELSE LET choice == Strip(typed.text)
         IN IF ValidateChoice(choice, valid_choices) = None
            THEN Prompted("return", choice, "none", "")
            ELSE Prompted("again", <<>>, "none", ValidateChoice(choice, valid_choices)[1])

\* pause_for_user of the Menu System and _pause_for_user of the Setup Menu:
\* the exception that leaves the pause, "none" when a line was entered.
\* The Menu System leaves through cleanup_and_exit on Ctrl-C.
PauseRaises(typed) ==
    IF typed.kind = "interrupt" THEN "KeyboardInterrupt"
    ELSE IF typed.kind = "eof" THEN "EOFError"
    ELSE "none"

RunExitStatusAlwaysZero(left) == 0

\* The statuses run() and cleanup_and_exit() end the process with, for
\* what left main_menu: cleanup_and_exit itself ("exit") and
\* KeyboardInterrupt give 0, any other exception gives 1.
RunExitStatus(left) ==
    IF left \in {"exit", "KeyboardInterrupt"} THEN 0 ELSE 1

\* The lists of valid choices of the menus.
ValidChoices(menu) ==
    IF menu = "contest_setup" THEN <<1, 2, 3, 4, 5, 6, 7, 8, 9, 10>>
    ELSE <<1, 2, 3, 4, 5>>

SetupMenus == {"setup_menu", "database_setup", "team_management", "contest_setup"}

\* The choice that leaves a menu of the Setup Menu, and where to.
BackChoice(menu) == IF menu = "contest_setup" THEN <<"1", "0">> ELSE <<"5">>

\* The branch "if choice == ..." of show_menu: the submenu a choice of the
\* Setup Menu opens, "verify" for the verification screen, the menu itself
\* when no branch matches.
SetupTarget(choice) ==
    CASE choice = <<"1">> -> "database_setup"
      [] choice = <<"2">> -> "team_management"
      [] choice = <<"3">> -> "contest_setup"
      [] choice = <<"4">> -> "verify"
      [] choice = <<"5">> -> "main_menu"
      [] OTHER -> "setup_menu"

\* The choices of a menu of the Setup Menu that start a handler; choice 4
\* of show_menu starts the verification screen.
HandlerChoices(menu) ==
    CASE menu = "setup_menu" -> {<<"4">>}
      [] menu = "contest_setup" ->
           {<<"1">>, <<"2">>, <<"3">>, <<"4">>, <<"5">>, <<"6">>, <<"7">>, <<"8">>, <<"9">>}
      [] OTHER -> {<<"1">>, <<"2">>, <<"3">>, <<"4">>}

\* What run() reports for an exception that left main_menu.
Cause(raised) == IF raised = "KeyboardInterrupt" THEN "interrupt" ELSE "error"

\* Lines typed at a prompt.
TypedLines ==
    {<<"1">>, <<"2">>, <<"3">>, <<"4">>, <<"5">>, <<"1", "0">>, <<"6">>, <<"0">>, <<" ", "3", " ">>,
     <<"0", "5">>, <<"+", "1">>, <<"-", "1">>, <<"q">>, <<"Q">>, <<"q", "u", "i", "t">>, <<" ", "E", "x", "i", "t", " ">>, <<"b">>, <<>>,
     <<"x">>}

Typed == {Line(text) : text \in TypedLines} \cup {Interrupt, EndOfFile}

\* How a handler of the Setup Menu ends: it returns to its menu, or an
\* exception leaves it.
HandlerEndings == {"none", "KeyboardInterrupt", "EOFError", "pymysql.Error"}

menuFrame == <<CONTEST_FLOW, contests_table, dj_connection, dj_open,
               dj_contest, pc, all_contests, idx, domjudge_contest_id, results,
               api_log, lock_log, call_state, faults, db_tables, tournament_state,
               clock, teams_table, dj_team, dj_user, dj_userrole, writers>>

\* The process ends: cleanup_and_exit, or the handlers of run().  Both
\* disconnect the database manager before sys.exit.
Exits(cause, typed, left) ==
    /\ op' = cause
    /\ arg' = <<typed>>
    /\ out' = <<>>
    /\ exc' = IF left = "exit" THEN "none" ELSE left
    /\ db_connection' = FALSE
    /\ screen' = "exited"
    /\ exit_status' = Some(RunExitStatus(left))

\* The shell goes on at a screen.
GoesOn(event, typed, result, target) ==
    /\ op' = event
    /\ arg' = <<typed>>
    /\ out' = result
    /\ exc' = "none"
    /\ screen' = target
    /\ UNCHANGED exit_status

\* MenuSystem.run up to the first prompt: connect() and the header of
\* main_menu.  A failed connection is reported and the menu is shown.
DoRun(reachable) ==
    /\ screen = "start"
    /\ db_connection' = reachable
    /\ GoesOn("run", <<>>, reachable, "main_menu")
    /\ UNCHANGED menuFrame

\* A line at the prompt of main_menu, and the screen it selects with the
\* key pressed at its pause.
DoMainChoice(typed, key) ==
    /\ screen = "main_menu"
    /\ LET result == GetUserChoice(typed, ValidChoices("main_menu"), FALSE)
       IN CASE result.outcome = "exit" ->
                 Exits(IF typed.kind = "interrupt" THEN "interrupt" ELSE "quit", typed, "exit")
            [] result.outcome = "raise" -> Exits(Cause(result.raised), typed, result.raised)
            [] result.outcome = "again" ->
                 GoesOn("main_choice", typed, result, "main_menu") /\ UNCHANGED db_connection
            [] result.outcome = "return" ->
                 IF result.choice = <<"5">>
                 THEN Exits("exit_choice", typed, "exit")
                 ELSE IF result.choice = <<"1">>
                 THEN GoesOn("main_choice", typed, result, "setup_menu") /\ UNCHANGED db_connection
                 ELSE IF result.choice \in {<<"2">>, <<"3">>, <<"4">>} /\ PauseRaises(key) = "KeyboardInterrupt"
                 THEN Exits("interrupt", key, "exit")
                 ELSE IF result.choice \in {<<"2">>, <<"3">>, <<"4">>} /\ PauseRaises(key) # "none"
                 THEN Exits(Cause(PauseRaises(key)), key, PauseRaises(key))
                 ELSE GoesOn("main_choice", typed, result, "main_menu") /\ UNCHANGED db_connection
    /\ UNCHANGED menuFrame

\* A line at the prompt of a menu of the Setup Menu, and the handler it
\* selects with the way the handler ends.  _connect_tournament_database
\* connects the manager when the server is reachable.
DoSetupChoice(typed, ending, reachable) ==
    /\ screen \in SetupMenus
    /\ LET result == SetupGetUserChoice(typed, ValidChoices(screen))
           handled == IF screen = "team_management" /\ result.choice = <<"2">>
                      THEN CreateDomjudgeAccounts(db_connection, teams_table, dj_team, dj_user,
                                                  reachable, "ok", <<>>,
                                                  IF ending = "none" THEN "enter" ELSE "interrupt").raised
                      ELSE ending
       IN CASE result.outcome = "raise" -> Exits(Cause(result.raised), typed, result.raised)
            [] result.outcome = "again" ->
                 GoesOn("setup_choice", typed, result, screen) /\ UNCHANGED db_connection
            [] result.outcome = "return" ->
                 IF result.choice = BackChoice(screen)
                 THEN GoesOn("setup_choice", typed, result,
                             IF screen = "setup_menu" THEN "main_menu" ELSE "setup_menu")
                      /\ UNCHANGED db_connection
                 ELSE IF screen = "setup_menu" /\ result.choice \notin HandlerChoices(screen)
                 THEN GoesOn("setup_choice", typed, result, SetupTarget(result.choice))
                      /\ UNCHANGED db_connection
                 ELSE IF result.choice \notin HandlerChoices(screen)
                 THEN GoesOn("setup_choice", typed, result, screen) /\ UNCHANGED db_connection
                 ELSE IF handled # "none"
                 THEN Exits(Cause(handled), typed, handled)
                 ELSE /\ GoesOn("setup_handler", typed, result, screen)
                      /\ db_connection' = IF screen = "database_setup" /\ result.choice = <<"1">>
                                          THEN db_connection \/ reachable
                                          ELSE db_connection
    /\ UNCHANGED menuFrame

\* A MenuSystem is constructed and run() is called.
InitMenu ==
    /\ InitIdle
    /\ InitStore
    /\ CONTEST_FLOW = InitializeContestFlowMapping
    /\ op = "init"
    /\ arg = <<>>
    /\ out = <<>>
    /\ exc = "none"
    /\ screen = "start"
    /\ exit_status = None
    /\ writers = <<>>
    /\ db_connection = FALSE
    /\ dj_connection = FALSE
    /\ dj_open = 0
    /\ contests_table = {}
    /\ dj_contest = StoredJudgeContests(0)

NextMenu ==
    \/ \E reachable \in BOOLEAN : DoRun(reachable)
    \/ \E typed \in Typed, key \in Typed : DoMainChoice(typed, key)
    \/ \E typed \in Typed, ending \in HandlerEndings, reachable \in BOOLEAN :
          DoSetupChoice(typed, ending, reachable)

SpecMenu == InitMenu /\ [][NextMenu]_vars

(***************************************************************************)
(* main.py: the entry point                                                *)
(***************************************************************************)
\* What `python main.py` executes, statement by statement.  Lines 17-24 of
\* the module body come before the definitions of check_dependencies,
\* display_startup_banner and main and before the call of main() in line
\* 104; exit(0) in line 24 raises SystemExit, so the interpreter never
\* reaches the lines after it.
entryFrame == <<CONTEST_FLOW, db_connection, contests_table, dj_connection, dj_open,
                dj_contest, pc, all_contests, idx, domjudge_contest_id, results,
                api_log, lock_log, call_state, faults, db_tables, tournament_state,
                clock, teams_table, dj_team, dj_user, dj_userrole, screen,
                writers>>

\* Lines 17-22: import TestCSVValidator, construct one, and print what
\* validate_teams_csv says about data/teams.csv.
DoEntryValidation ==
    /\ op = "init"
    /\ exit_status = None
    /\ Returns("validate_teams_csv", arg, ValidateTeamsCsv(arg[1]))
    /\ UNCHANGED <<entryFrame, exit_status>>

\* Line 24: exit(0).
DoEntryExit ==
    /\ op = "validate_teams_csv"
    /\ exit_status = None
    /\ Returns("exit", <<0>>, out)
    /\ exit_status' = Some(0)
    /\ UNCHANGED entryFrame

\* The interpreter is about to run main.py; data/teams.csv is any of the
\* sample files at that path.
InitMain ==
    /\ InitIdle
    /\ screen = "none"
    /\ exit_status = None
    /\ writers = <<>>
    /\ InitStore
    /\ CONTEST_FLOW = InitializeContestFlowMapping
    /\ op = "init"
    /\ arg \in {<<file>> : file \in {f \in SampleFiles : f.path = CsvPath}}
    /\ out = <<>>
    /\ exc = "none"
    /\ db_connection = FALSE
    /\ dj_connection = FALSE
    /\ dj_open = 0
    /\ contests_table = {}
    /\ dj_contest = StoredJudgeContests(0)

NextMain ==
    \/ DoEntryValidation
    \/ DoEntryExit

SpecMain == InitMain /\ [][NextMain]_vars

(***************************************************************************)
(* core/domjudge_db.py: create_team, statement by statement, with several  *)
(* processes writing to the judge-system database                          *)
(***************************************************************************)
\* Processes that run the tool against one judge-system database.
MaxWriters == 2

\* A writer outside create_team, with what its last call returned.
Left(team_name, value, raised) ==
    [pc |-> "idle", team_id |-> None, value |-> value, raised |-> raised,
     team_name |-> team_name, lost |-> FALSE]

\* A writer inside create_team, after one of its statements.
Inside(position, team_name, team_id, lost) ==
    [pc |-> position, team_id |-> team_id, value |-> None, raised |-> FALSE,
     team_name |-> team_name, lost |-> lost]

\* A connection that broke in an earlier statement of the call stays broken.
WriterOutcome(w, outcome) == IF writers[w].lost THEN "lost" ELSE outcome

\* teamid is the primary key of the judge system's team table: an INSERT
\* with an id that is present fails with an integrity error.
TeamOutcome(team, team_id, outcome) ==
    IF outcome = "ok" /\ \E t \in team : t.teamid = team_id THEN "error" ELSE outcome

\* The variables create_team never touches.
raceFrame == <<CONTEST_FLOW, op, arg, out, exc, db_connection, contests_table,
               dj_connection, dj_open, dj_contest, pc, all_contests, idx,
               domjudge_contest_id, results, api_log, lock_log, call_state, faults,
               db_tables, tournament_state, clock, teams_table, dj_user, dj_userrole,
               screen, exit_status>>

\* if self.team_exists(team_name): print(...); return None
WriterTeamExists(w, team_name, outcome) ==
    /\ writers[w].pc = "idle"
    /\ Cardinality(dj_team) < MaxJudgeTeams
    /\ writers' = [writers EXCEPT ![w] =
          IF Exists(TRUE, outcome, Cardinality({t \in dj_team : t.name = team_name}))
          THEN Left(team_name, None, FALSE)
          ELSE Inside("checked", team_name, None, outcome = "lost")]
    /\ UNCHANGED <<raceFrame, dj_team>>

\* team_id = self.get_next_team_id(); if team_id is None: return None
WriterGetNextTeamId(w, outcome) ==
    /\ writers[w].pc = "checked"
    /\ LET team_id == GetNextId(TRUE, WriterOutcome(w, outcome),
                                {t.teamid : t \in dj_team})
       IN writers' = [writers EXCEPT ![w] =
             IF team_id = None
             THEN Left(@.team_name, None, FALSE)
             ELSE Inside("allocated", @.team_name, team_id, @.lost)]
    /\ UNCHANGED <<raceFrame, dj_team>>

\* if self.execute_query(team_query, (team_id, team_name, category_id)):
\*     return team_id
\* else: return None
WriterInsertTeam(w, outcome) ==
    /\ writers[w].pc = "allocated"
    /\ LET team_id == writers[w].team_id
           inserted == ExecuteQuery(TRUE, TeamOutcome(dj_team, team_id[1],
                                                      WriterOutcome(w, outcome)))
       IN /\ dj_team' = IF inserted.committed
                        THEN dj_team \cup {[name |-> writers[w].team_name,
                                            teamid |-> team_id[1],
                                            categoryid |-> 1]}
                        ELSE dj_team
          /\ writers' = [writers EXCEPT ![w] =
                Left(@.team_name, IF inserted.value THEN team_id ELSE None,
                     inserted.raised)]
    /\ UNCHANGED raceFrame

\* One or two connected writers, none of them inside create_team, and a
\* judge system without teams.
InitRace ==
    /\ CONTEST_FLOW = InitializeContestFlowMapping
    /\ op = "init"
    /\ arg = <<>>
    /\ out = <<>>
    /\ exc = "none"
    /\ screen = "none"
    /\ exit_status = None
    /\ InitIdle
    /\ InitStore
    /\ db_connection = FALSE
    /\ dj_connection = FALSE
    /\ dj_open = 0
    /\ contests_table = {}
    /\ dj_contest = StoredJudgeContests(0)
    /\ \E n \in 1..MaxWriters : writers = [w \in 1..n |-> Left("", None, FALSE)]

NextRace ==
    \/ \E w \in DOMAIN writers, team_name \in TeamNames, outcome \in Outcomes :
          WriterTeamExists(w, team_name, outcome)
    \/ \E w \in DOMAIN writers, outcome \in Outcomes : WriterGetNextTeamId(w, outcome)
    \/ \E w \in DOMAIN writers, outcome \in Outcomes : WriterInsertTeam(w, outcome)

SpecRace == InitRace /\ [][NextRace]_vars

(***************************************************************************)
(* Properties of the Contest Engine, checked under SpecEngine.             *)
(***************************************************************************)
\* The two-digit index strings of the contest names, written out.
TwoDigit == <<"01", "02", "03", "04", "05", "06", "07", "08", "09", "10", "11", "12",
              "13", "14", "15", "16", "17", "18", "19", "20", "21", "22", "23", "24">>

ExpectedDuel(r, i) == "R" \o Digits[r + 1] \o "_Duel_" \o TwoDigit[i]

\* ceil(i / 2)
CeilHalf(i) == (i + 1) \div 2

NamesOf(contests) == {contests[k].contest_name : k \in 1..Len(contests)}

NameList(contests) == [k \in 1..Len(contests) |-> contests[k].contest_name]

\* C1: bracket completeness.  generate_all_contests yields 63 pairwise
\* distinct names, the set of these names is exactly the key set of the
\* flow-routing graph, and validate_contest_structure reports no missing
\* flow mapping.
C1_BracketCompleteness ==
    /\ op = "generate_all_contests" =>
         /\ exc = "none"
         /\ Len(out) = 63
         /\ Cardinality(NamesOf(out)) = 63
         /\ NamesOf(out) = DOMAIN CONTEST_FLOW
    /\ op = "validate_contest_structure" =>
         /\ exc = "none"
         /\ out.valid
         /\ out.errors = <<>>
    /\ op = "get_contest_flow" =>
         (out # None <=> arg[1] \in NamesOf(GenerateAllContests))

C1_Witness ==
    /\ op = "validate_contest_structure"
    /\ exc = "none"
    /\ out.valid

\* C2: duel routing follows the bracket formula.  The winner of R1_Duel_i
\* goes to R2_Duel_ceil(i/2); of R2_Duel_i to R3_Duel_ceil(i/2) for i <= 8
\* and to R3_Duel_(i-4) for i = 9..12; of R3_Duel_i to R4_Duel_ceil(i/2);
\* of R6_Duel_i to R7_Duel_ceil(i/2); the loser of each goes to the next
\* round's Group_Losers contest.
C2_ExpectedFlow(name) ==
    LET Hit(r, n) == \E i \in 1..n : name = ExpectedDuel(r, i)
        Idx(r, n) == CHOOSE i \in 1..n : name = ExpectedDuel(r, i)
    IN IF Hit(1, 24) THEN
           Some([winner_to |-> ExpectedDuel(2, CeilHalf(Idx(1, 24))),
                 loser_to |-> "R2_Group_Losers"])
       ELSE IF Hit(2, 12) THEN
           Some([winner_to |-> IF Idx(2, 12) <= 8
                               THEN ExpectedDuel(3, CeilHalf(Idx(2, 12)))
                               ELSE ExpectedDuel(3, Idx(2, 12) - 4),
                 loser_to |-> "R3_Group_Losers"])
       ELSE IF Hit(3, 8) THEN
           Some([winner_to |-> ExpectedDuel(4, CeilHalf(Idx(3, 8))),
                 loser_to |-> "R4_Group_Losers"])
       ELSE IF Hit(6, 4) THEN
           Some([winner_to |-> ExpectedDuel(7, CeilHalf(Idx(6, 4))),
                 loser_to |-> "R7_Group_Losers"])
       ELSE None

C2_DuelRouting ==
    /\ \A r \in {1, 2, 3, 6} :
         \A i \in 1..(CASE r = 1 -> 24 [] r = 2 -> 12 [] r = 3 -> 8 [] r = 6 -> 4) :
            /\ ExpectedDuel(r, i) \in DOMAIN CONTEST_FLOW
            /\ Some(CONTEST_FLOW[ExpectedDuel(r, i)]) = C2_ExpectedFlow(ExpectedDuel(r, i))
    /\ (op = "get_contest_flow" /\ C2_ExpectedFlow(arg[1]) # None) =>
         out = C2_ExpectedFlow(arg[1])

C2_Witness ==
    /\ op = "get_contest_flow"
    /\ arg = <<"R2_Duel_09">>
    /\ out = Some([winner_to |-> "R3_Duel_05", loser_to |-> "R3_Group_Losers"])

\* C3: round-1 team placement.  get_initial_team_placement maps each of
\* the 24 duels R1_Duel_k to the teams 2k-1 and 2k; every team 1..48 is in
\* exactly one duel and the sorted list of all placed teams is 1..48.
C3_TeamPlacement ==
    /\ op = "get_initial_team_placement" =>
         /\ DOMAIN out = {ExpectedDuel(1, k) : k \in 1..24}
         /\ \A k \in 1..24 : out[ExpectedDuel(1, k)] = <<2 * k - 1, 2 * k>>
         /\ \A t \in 1..48 :
              Cardinality({<<n, j>> \in (DOMAIN out) \X {1, 2} : out[n][j] = t}) = 1
    /\ op = "test_initial_team_placement" =>
         /\ out.all_placed_teams = [t \in 1..48 |-> t]
         /\ out.correct

C3_Witness ==
    /\ op = "get_initial_team_placement"
    /\ out["R1_Duel_24"] = <<47, 48>>

\* C4: max-teams lookup.  Group capacity is 24, 32, 16, 8, 4 for rounds
\* 2, 3, 4, 5, 7 and 24 for any other round; speed capacity is 24 for
\* round 4, 36 for round 5 and 24 otherwise; every duel, final and
\* third-place contest has capacity 2.
C4_GroupCapacity(r) ==
    CASE r = 2 -> 24 [] r = 3 -> 32 [] r = 4 -> 16 [] r = 5 -> 8 [] r = 7 -> 4
      [] OTHER -> 24

C4_SpeedCapacity(r) == CASE r = 4 -> 24 [] r = 5 -> 36 [] OTHER -> 24

C4_PlannedCapacity(c) ==
    CASE c.contest_type = "duel" -> c.max_teams = 2
      [] c.contest_type = "group" -> c.max_teams = C4_GroupCapacity(c.round_number)
      [] c.contest_type = "speed" -> c.max_teams = C4_SpeedCapacity(c.round_number)
      [] OTHER -> FALSE

C4_MaxTeamsLookup ==
    /\ (op = "calculate_group_max_teams" /\ arg[2] = "losers") =>
         out = C4_GroupCapacity(arg[1])
    /\ op = "calculate_speed_max_teams" => out = C4_SpeedCapacity(arg[1])
    /\ (op \in {"generate_round_contests", "generate_all_contests"} /\ exc = "none") =>
         \A k \in 1..Len(out) : C4_PlannedCapacity(out[k])

C4_Witness ==
    /\ op = "generate_round_contests"
    /\ arg = <<7>>
    /\ \E k \in 1..Len(out) : out[k].contest_type = "group" /\ out[k].max_teams = 4

\* C5: naming determinism.  Every generation of round 1 yields exactly
\* R1_Duel_01 .. R1_Duel_24 in ascending order, and every generation of
\* round 8 yields exactly R8_Final, R8_Third_Place.
C5_NamingDeterminism ==
    (op = "generate_round_contests" /\ arg[1] \in {1, 8}) =>
        /\ exc = "none"
        /\ arg[1] = 1 => NameList(out) = [k \in 1..24 |-> "R1_Duel_" \o TwoDigit[k]]
        /\ arg[1] = 8 => NameList(out) = <<"R8_Final", "R8_Third_Place">>

C5_Witness ==
    /\ op = "generate_round_contests"
    /\ arg = <<1>>
    /\ Len(out) = 24
    /\ out[9].contest_name = "R1_Duel_09"

\* C6: round-number bounds.  generate_round_contests raises the
\* invalid-input failure for every round outside 1..8 and returns a
\* contest list for each round 1..8; generate_all_contests completes
\* without failure.
C6_RoundBounds ==
    /\ op = "generate_round_contests" =>
         /\ exc = "ValueError" <=> arg[1] \notin 1..8
         /\ arg[1] \in 1..8 => (exc = "none" /\ Len(out) > 0
                                /\ \A k \in 1..Len(out) : out[k].round_number = arg[1])
    /\ op = "generate_all_contests" => exc = "none" /\ Len(out) > 0

C6_Witness ==
    /\ op = "generate_round_contests"
    /\ arg = <<9>>
    /\ exc = "ValueError"

(***************************************************************************)
(* Properties of create_all_contests, checked under Spec.                  *)
(***************************************************************************)
\* The create requests of the current call, and what became of each.
CallRequests == SubSeq(api_log, call_state.requests + 1, Len(api_log))

NewRows == contests_table \ call_state.contests_table

CreationFailed(j) == CallRequests[j].reply = None

LockFailed(j) ==
    /\ CallRequests[j].reply # None
    /\ [cid |-> CallRequests[j].reply[1], ok |-> FALSE] \in lock_log

LockSucceeded(j) ==
    /\ CallRequests[j].reply # None
    /\ [cid |-> CallRequests[j].reply[1], ok |-> TRUE] \in lock_log

Saved(j) ==
    /\ CallRequests[j].reply # None
    /\ \E row \in NewRows :
          /\ row.contest_name = CallRequests[j].request.short_name
          /\ row.domjudge_contest_id = CallRequests[j].reply[1]

FailureListed(name, error, id) ==
    \E f \in 1..Len(results.failed_contests) :
        results.failed_contests[f] = [name |-> name, error |-> error, domjudge_id |-> id]

RanLoop == pc # "idle" /\ call_state.dj_connected

\* C7: partial-failure accounting.  When the judge-system API fails to
\* create exactly k of the N planned contests and every other step
\* succeeds, all N contests are processed and the result has
\* success_count = N - k, exactly k failure entries, each with the
\* creation-stage reason, and total_contests = N.
C7_PartialFailureAccounting ==
    (pc = "returned" /\ call_state.dj_connected) =>
        LET N == Len(GenerateAllContests)
            failed == {j \in 1..Len(CallRequests) : CreationFailed(j)}
            k == Cardinality(failed)
            others_ok == \A j \in 1..Len(CallRequests) :
                            CreationFailed(j) \/ (LockSucceeded(j) /\ Saved(j))
        IN others_ok =>
             /\ Len(CallRequests) = N
             /\ \A j \in 1..N : CallRequests[j].request.short_name
                                   = GenerateAllContests[j].contest_name
             /\ results.success_count = N - k
             /\ Len(results.failed_contests) = k
             /\ \A f \in 1..Len(results.failed_contests) :
                   /\ results.failed_contests[f].error = "Failed to create in DOMjudge"
                   /\ results.failed_contests[f].domjudge_id = None
                   /\ \E j \in failed : CallRequests[j].request.short_name
                                           = results.failed_contests[f].name
             /\ results.total_contests = N

C7_Witness ==
    /\ pc = "returned"
    /\ call_state.dj_connected
    /\ Cardinality({j \in 1..Len(CallRequests) : CreationFailed(j)}) = 1
    /\ results.success_count = 62
    /\ Len(results.failed_contests) = 1
    /\ results.total_contests = 63

\* C8: creation step ordering.  A row is in the tournament contests table
\* by a run of create_all_contests only if the judge-system creation of
\* that contest returned its id and the update closing it reported
\* success; a contest whose creation or visibility lock failed has no such
\* row and is in the failure list with its stage.
C8_CreationOrdering ==
    RanLoop =>
        /\ \A row \in NewRows :
              /\ \E j \in 1..Len(CallRequests) :
                    /\ CallRequests[j].request.short_name = row.contest_name
                    /\ CallRequests[j].reply = Some(row.domjudge_contest_id)
              /\ [cid |-> row.domjudge_contest_id, ok |-> TRUE] \in lock_log
              /\ ~dj_contest[row.domjudge_contest_id].open_to_all_teams
        /\ \A j \in 1..Len(CallRequests) :
              LET name == CallRequests[j].request.short_name
              IN /\ CreationFailed(j) =>
                      /\ \A row \in NewRows : row.contest_name # name
                      /\ FailureListed(name, "Failed to create in DOMjudge", None)
                 /\ LockFailed(j) =>
                      /\ \A row \in NewRows : row.contest_name # name
                      /\ FailureListed(name, "Failed to set contest as closed",
                                       CallRequests[j].reply)

C8_Witness ==
    /\ pc = "returned"
    /\ call_state.dj_connected
    /\ \E j \in 1..Len(CallRequests) : LockFailed(j)
    /\ \E j \in 1..Len(CallRequests) : CreationFailed(j)
    /\ \E j \in 1..Len(CallRequests) : Saved(j)

\* C9: fail-fast on the judge-system database.  If the connection cannot
\* be established, create_all_contests returns success false, success
\* count 0, an empty failure list and the plan size as total, sends no
\* create request and writes no row.
C9_FailFast ==
    (pc # "idle" /\ ~call_state.dj_connected) =>
        /\ pc = "returned"
        /\ "success" \in DOMAIN results
        /\ results.success = FALSE
        /\ results.success_count = 0
        /\ results.failed_contests = <<>>
        /\ results.total_contests = 63
        /\ Len(CallRequests) = 0
        /\ contests_table = call_state.contests_table
        /\ dj_contest = call_state.dj_contest

C9_Witness ==
    /\ pc = "returned"
    /\ ~call_state.dj_connected
    /\ results.success = FALSE
    /\ contests_table # {}

\* C10: guaranteed release.  Whenever create_all_contests is over, by
\* return with any mix of per-contest failures or by an exception leaving
\* the loop, the manager's judge-system connection is closed and none is
\* left open, and the tournament connection is as the call found it.
C10_GuaranteedRelease ==
    pc \in {"returned", "raised"} =>
        /\ ~dj_connection
        /\ dj_open = 0
        /\ db_connection = call_state.db_connection

C10_Witness ==
    /\ pc = "raised"
    /\ call_state.dj_connected
    /\ Len(CallRequests) > 0
    /\ Len(results.failed_contests) > 0
    /\ ~dj_connection

(***************************************************************************)
(* Properties of the status operations of the Contest Manager, checked     *)
(* under SpecStatus.                                                       *)
(***************************************************************************)
\* The names listed in a created or missing list of the status.
ListedNames(entries) == {entries[k].name : k \in 1..Len(entries)}

\* The planned contests of one round.
PlannedInRound(r) ==
    {k \in 1..Len(GenerateAllContests) : GenerateAllContests[k].round_number = r}

\* The last operation read the contests table: the manager is connected
\* and the SELECT ran.
TableWasRead == db_connection /\ arg[1] = "ok"

HasError(errors, e) == \E k \in 1..Len(errors) : errors[k] = e

C12_VerifyVerdict ==
    op = "verify_contest_setup" =>
      LET errors == out.errors
          status == out.status_info.contests_status
          stored == Cardinality(contests_table)
          none_created == "No contests have been created in DOMjudge"
          some_missing == ToStr(Len(status.missing_contests))
                            \o " contests are missing from DOMjudge"
          failing == [errors |-> <<"No flow mapping for contest: X">>, valid |-> FALSE]
      IN /\ out.is_complete <=> errors = <<>>
         /\ stored = 0 => HasError(errors, none_created)
         /\ stored < Len(GenerateAllContests) =>
               HasError(errors, none_created) \/ HasError(errors, some_missing)
         /\ ~arg[2] => HasError(errors, "Cannot connect to DOMjudge database")
         /\ ~out.status_info.structure_valid => errors # <<>>
         /\ \A structure \in {ValidateContestStructure(CONTEST_FLOW), failing} :
               LET verdict == VerifyContestSetup(status, arg[2], structure)
               IN /\ verdict.is_complete <=> verdict.errors = <<>>
                  /\ ~structure.valid =>
                       /\ ~verdict.is_complete
                       /\ HasError(verdict.errors,
                                   "Contest structure: No flow mapping for contest: X")
         /\ ~dj_connection
         /\ dj_open = 0

\* A verification of a partly created plan with the judge-system database
\* out of reach: two errors, and no connection left open.
C12_Witness ==
    /\ op = "verify_contest_setup"
    /\ TableWasRead
    /\ Cardinality(contests_table) = 4
    /\ ~arg[2]
    /\ out.errors = <<"59 contests are missing from DOMjudge",
                      "Cannot connect to DOMjudge database">>
    /\ ~out.is_complete

ConnectionAfter(manager) ==
    IF manager = "tournament" THEN db_connection' ELSE dj_connection'

\* C14: the primitives of both database managers are guarded.  Without a
\* connection execute_query returns False and fetch_query returns None, and
\* neither runs a statement.  With a connection execute_query commits and
\* returns True when the statement succeeds; on a database error it rolls
\* back, returns False and lets no exception propagate.  disconnect is
\* idempotent, and after it is_connected reports False.
C14_GuardedPrimitives ==
    [][/\ op' = "execute_query" =>
            LET connected == ConnectionOf(arg'[1])
            IN /\ ~connected => ~out'.value /\ ~out'.ran /\ exc' = "none"
               /\ (connected /\ arg'[2] = "ok") =>
                     out'.committed /\ out'.value /\ exc' = "none"
               /\ (connected /\ arg'[2] # "ok") =>
                     out'.rolled_back /\ ~out'.value /\ exc' = "none"
       /\ op' = "fetch_query" =>
            /\ exc' = "none"
            /\ ~ConnectionOf(arg'[1]) => out'.value = None /\ ~out'.ran
       /\ op' = "disconnect" =>
            /\ exc' = "none"
            /\ ~ConnectionAfter(arg'[1])
            /\ ~ConnectionOf(arg'[1]) =>
                  <<db_connection', dj_connection', dj_open'>>
                     = <<db_connection, dj_connection, dj_open>>
       /\ (op' = "is_connected" /\ op = "disconnect" /\ arg'[1] = arg[1]) =>
            out' = FALSE
    ]_vars

\* C15: initialize_database is idempotent.  A run on a connected manager
\* whose five statements all succeed returns True and leaves exactly one
\* tournament_state row, with id 1, on an empty database as on an
\* initialized one; a run never changes a tournament_state row that exists,
\* whatever was updated in it since the first run; and a run returns True
\* only if the four CREATE TABLE statements and the seed insert succeeded.
C15_SchemaIdempotence ==
    [][op' = "initialize_database" =>
         LET all_succeed == db_connection /\ arg'[1]
         IN /\ all_succeed =>
                 /\ exc' = "none"
                 /\ out' = TRUE
                 /\ Cardinality(tournament_state') = 1
                 /\ \A row \in tournament_state' : row.id = 1
                 /\ tournament_state = {} => tournament_state' = {InitStateRow(clock')}
            /\ tournament_state # {} => tournament_state' = tournament_state
            /\ (exc' = "none" /\ out' = TRUE) =>
                 /\ all_succeed
                 /\ db_tables' = {tables[k] : k \in 1..Len(tables)}
            /\ Cardinality(tournament_state') <= 1
    ]_vars

\* A later run of initialize_database that returned True after the row had
\* been updated to round 2: the row is still the updated one.
C15_Witness ==
    /\ op = "initialize_database"
    /\ exc = "none"
    /\ out = TRUE
    /\ \E row \in tournament_state :
          /\ row.id = 1
          /\ row.current_round = 2
          /\ row.current_phase = "round_active"
          /\ row.last_updated = 1
    /\ Cardinality(tournament_state) = 1

\* The tables and rows other than tournament_state.
OtherTables == <<contests_table, teams_table, db_tables, dj_contest, dj_team, dj_user,
                 dj_userrole>>

\* The update left the columns outside kept as they were, in every row.
ColumnsKept(kept) ==
    /\ Cardinality(tournament_state') = Cardinality(tournament_state)
    /\ \A row \in tournament_state :
          \E new \in tournament_state' :
             /\ new.id = row.id
             /\ \A f \in kept : new[f] = row[f]
             /\ row.id # 1 => new = row

\* C16 as stated: update_tournament_state with no field returns False and
\* writes nothing; with fields it changes only the named fields of the row
\* with id 1 and leaves every other field of that row and every other
\* table unchanged.
C16_OnlyNamedFields ==
    [][op' = "update_tournament_state" =>
         LET kwargs == arg'[1]
         IN /\ DOMAIN kwargs = {} =>
                 /\ exc' = "none"
                 /\ ~out'.value
                 /\ ~out'.ran
                 /\ tournament_state' = tournament_state
            /\ DOMAIN kwargs # {} => ColumnsKept(StateColumns \ DOMAIN kwargs)
            /\ OtherTables' = OtherTables
    ]_vars

\* C16 as amended: with fields the update changes only the named fields of
\* the row with id 1 and that row's last_updated, which takes the current
\* timestamp exactly when a named field changes its value; every other
\* field of the row and every other table is unchanged.
C16_NamedFieldsAndTimestamp ==
    [][op' = "update_tournament_state" =>
         LET kwargs == arg'[1]
             executed == /\ db_connection
                         /\ arg'[2] = "ok"
                         /\ DOMAIN kwargs # {}
                         /\ DOMAIN kwargs \subseteq StateColumns
                         /\ "tournament_state" \in db_tables
         IN /\ DOMAIN kwargs = {} =>
                 /\ exc' = "none"
                 /\ ~out'.value
                 /\ ~out'.ran
                 /\ tournament_state' = tournament_state
            /\ DOMAIN kwargs # {} =>
                 /\ ColumnsKept(StateColumns \ (DOMAIN kwargs \cup {"last_updated"}))
                 /\ \A row \in tournament_state :
                       \E new \in tournament_state' :
                          /\ new.id = row.id
                          /\ executed => \A f \in DOMAIN kwargs : new[f] = kwargs[f]
                          /\ ~executed => new = row
                          /\ new.last_updated # row.last_updated <=>
                               /\ executed
                               /\ \E f \in DOMAIN kwargs : kwargs[f] # row[f]
                               /\ clock' # row.last_updated
                          /\ new.last_updated \in {row.last_updated, clock'}
            /\ OtherTables' = OtherTables
    ]_vars

\* An update of current_round alone that was executed at a later time than
\* the seed insert: the round and the timestamp changed, the phase did not.
C16_Witness ==
    /\ op = "update_tournament_state"
    /\ exc = "none"
    /\ DOMAIN arg[1] = {"current_round"}
    /\ out.value
    /\ \E row \in tournament_state :
          /\ row.id = 1
          /\ row.current_round = 2
          /\ row.current_phase = "setup"
          /\ row.total_teams = 48
          /\ row.last_updated = 1

(***************************************************************************)
(* Properties of the judge-system database manager, checked under          *)
(* SpecJudge.                                                              *)
(***************************************************************************)
\* C17: create_team_with_user is not atomic.  It returns a pair of ids only
\* if the team insert, the user and role inserts and the link all took
\* effect; when the team was created and the user was not, it returns None
\* and the new team row stays; when the team name exists already it returns
\* None without inserting a team or a user.
C17_NonAtomicProvisioning ==
    [][op' = "create_team_with_user" =>
         LET team_name == arg'[1]
             username == arg'[2]
             team_created == dj_team' # dj_team
             user_created == dj_userrole' # dj_userrole
         IN /\ (exc' = "none" /\ out' # None) =>
                 /\ [name |-> team_name, teamid |-> out'[1].team_id, categoryid |-> 1]
                       \in dj_team' \ dj_team
                 /\ [name |-> team_name, teamid |-> Some(out'[1].team_id),
                     username |-> username, userid |-> out'[1].user_id]
                       \in dj_user' \ dj_user
                 /\ [userid |-> out'[1].user_id, roleid |-> 3]
                       \in dj_userrole' \ dj_userrole
            /\ (team_created /\ ~user_created) =>
                 /\ exc' = "none"
                 /\ out' = None
                 /\ dj_team \subseteq dj_team'
                 /\ \E t \in dj_team' \ dj_team : t.name = team_name
            /\ (\E t \in dj_team : t.name = team_name) =>
                 /\ exc' = "none"
                 /\ out' = None
                 /\ <<dj_team', dj_user', dj_userrole'>> = <<dj_team, dj_user, dj_userrole>>
    ]_vars

(***************************************************************************)
(* Properties of the team import, checked under SpecImport and SpecCsv.    *)
(***************************************************************************)
\* The last line typed at the confirmation prompt is a yes.
AnsweredYes(responses) ==
    /\ responses # <<>>
    /\ Lower(Strip(responses[Len(responses)])) \in {<<"y">>, <<"y", "e", "s">>, <<"t", "r", "u", "e">>, <<"1">>}

\* C18: team import is gated.  load-teams-from-CSV deletes the rows of the
\* teams table and inserts rows only after the file has passed the whole
\* teams-CSV validation and the operator has answered the confirmation with
\* a yes; when the validation fails, or the confirmation is declined or
\* answered with an empty line, the teams table is unchanged.
C18_ImportGated ==
    [][op' = "load_teams_from_csv" =>
          ((~ValidateTeamsCsv(arg'[2]).is_valid \/ ~AnsweredYes(arg'[3]))
              => teams_table' = teams_table)]_vars

\* A validated file, an empty line at the confirmation prompt, and the
\* teams of the earlier import still in the table.
C18_Witness ==
    /\ op = "load_teams_from_csv"
    /\ db_connection
    /\ ValidateTeamsCsv(arg[2]).is_valid
    /\ arg[3] # <<>>
    /\ Strip(arg[3][Len(arg[3])]) = <<>>
    /\ out = "Operation cancelled."
    /\ teams_table # {}

\* The first row of a file, each cell trimmed and lower-cased.
FirstRowCleaned(file) ==
    [i \in 1..Len(file.rows[1]) |-> Lower(Strip(file.rows[1][i]))]

\* C19: CSV header rejection.  When the first row of the file, each cell
\* trimmed and lower-cased, is not the list name, email, institution in
\* this order, validate_teams_csv returns invalid, with the header-mismatch
\* error as its only error and no valid team, whatever the data rows hold.
C19_HeaderRejection ==
    (/\ op = "validate_teams_csv"
     /\ ValidateCsvFile(arg[1]) = None
     /\ arg[1].rows # <<>>
     /\ FirstRowCleaned(arg[1]) # <<<<"n", "a", "m", "e">>, <<"e", "m", "a", "i", "l">>, <<"i", "n", "s", "t", "i", "t", "u", "t", "i", "o", "n">>>>)
    => /\ out.is_valid = FALSE
       /\ out.valid_teams = <<>>
       /\ out.errors = <<"Headers mismatch. Expected: ['name', 'email', 'institution'], Got: "
                         \o Repr(arg[1].rows[1])>>

\* The file whose first line is Name,Email, with a data row after it.
C19_Witness ==
    /\ op = "validate_teams_csv"
    /\ arg[1].kind = "file"
    /\ Len(arg[1].rows) = 2
    /\ arg[1].rows[1] = <<<<"N", "a", "m", "e">>, <<"E", "m", "a", "i", "l">>>>
    /\ arg[1].rows[2] = <<<<"A", "l", "p", "h", "a">>, <<"a", "@", "x", ".", "i", "o">>, <<"U", "n", "i">>>>
    /\ out.is_valid = FALSE

\* The name a data row of the file holds, in the first column.
NameInFile(file, k) == Strip(file.rows[k + 1][1])

\* The errors that report the name of row k of the data rows as a duplicate.
DuplicateNameErrors(file, errors, k) ==
    {i \in 1..Len(errors) : errors[i] = DuplicateName(k + 1, NameInFile(file, k))}

\* C20: CSV duplicate detection.  For a teams CSV whose first row is
\* accepted, a data row whose name is that of an earlier row yields exactly
\* one duplicate-name error and is not admitted; no two admitted teams
\* share a name or an email; and the result is invalid whenever there is
\* an error or no row is admitted.
C20_DuplicateDetection ==
    (/\ op = "validate_teams_csv"
     /\ ValidateCsvFile(arg[1]) = None
     /\ arg[1].rows # <<>>
     /\ FirstRowCleaned(arg[1]) = <<<<"n", "a", "m", "e">>, <<"e", "m", "a", "i", "l">>, <<"i", "n", "s", "t", "i", "t", "u", "t", "i", "o", "n">>>>)
    => /\ \A k \in 1..(Len(arg[1].rows) - 1) :
             (/\ NameInFile(arg[1], k) # <<>>
              /\ \E j \in 1..(k - 1) : NameInFile(arg[1], j) = NameInFile(arg[1], k))
             => /\ Cardinality(DuplicateNameErrors(arg[1], out.errors, k)) = 1
                /\ \A t \in 1..Len(out.valid_teams) : out.valid_teams[t].row_number # k + 1
       /\ \A s, t \in 1..Len(out.valid_teams) :
             s # t => /\ out.valid_teams[s].name # out.valid_teams[t].name
                      /\ out.valid_teams[s].email # out.valid_teams[t].email
       /\ (out.errors # <<>> \/ out.valid_teams = <<>>) => out.is_valid = FALSE

(***************************************************************************)
(* Properties of generate_username, checked under SpecUsername.            *)
(***************************************************************************)
UsernameCharacters == {LowerCase[k] : k \in DOMAIN LowerCase} \cup DigitCharacters \cup {"_"}

\* What holds of every generated username: its characters, no two
\* underscores in a row, no leading underscore, at most 50 characters, and
\* the team_ prefix of a short sanitized name.
WellFormedUsername(team_name, username) ==
    /\ \A i \in 1..Len(username) : username[i] \in UsernameCharacters
    /\ \A i \in 1..(Len(username) - 1) : ~(username[i] = "_" /\ username[i + 1] = "_")
    /\ username # <<>>
    /\ username[1] # "_"
    /\ Len(username) <= 50
    /\ Len(SanitizedName(team_name)) < 3
          => username = <<"t", "e", "a", "m", "_">> \o SanitizedName(team_name)

\* C21 as stated: for every team name the generated username consists only
\* of lowercase letters, digits and single underscores, has no leading or
\* trailing underscore and at most 50 characters, and a sanitized name of
\* fewer than 3 characters is prefixed with team_.
C21_UsernameNoTrailingUnderscore ==
    op = "generate_username"
    => /\ WellFormedUsername(arg[1], out)
       /\ out[Len(out)] # "_"

\* C21, amended: the same, except that the username ends with an underscore
\* in exactly two cases: the sanitized name is empty (the username is
\* team_), or the username was cut to 50 characters right after an
\* underscore.
C21_Username ==
    op = "generate_username"
    => /\ WellFormedUsername(arg[1], out)
       /\ out[Len(out)] = "_"
             <=> \/ SanitizedName(arg[1]) = <<>>
                 \/ /\ Len(SanitizedName(arg[1])) > 50
                    /\ SanitizedName(arg[1])[50] = "_"

C21_Witness ==
    /\ op = "generate_username"
    /\ arg[1] = <<"@", "@">>
    /\ out = <<"t", "e", "a", "m", "_">>

(***************************************************************************)
(* Properties of the account creation, checked under SpecAccounts.         *)
(***************************************************************************)
\* The accounts are created for the teams lacking one: the tournament
\* database is connected, the judge-system API answers, the teams are
\* read and some team has no account.
AccountsAreCreated ==
    /\ op = "create_domjudge_accounts"
    /\ arg[1]
    /\ arg[3]
    /\ arg[4] = "ok"
    /\ TeamsWithoutAccount(arg[2]) # <<>>

\* The local row of a team got its judge-system ids in this call.
IdsSetInCall(name) ==
    \E before \in arg[2], after \in teams_table :
       /\ before.name = name
       /\ after.name = name
       /\ before.domjudge_team_id = None
       /\ after.domjudge_team_id # None

\* C22: account provisioning loop.  When the accounts are created for the
\* teams lacking one, every such team is attempted exactly once, in a loop
\* that goes on after a failure; each failure is in the failure list with
\* its stage; successes + failures = teams processed; and a local row gets
\* its judge-system ids only if the judge-system team and user of that team
\* were both created.
C22_AccountLoop ==
    AccountsAreCreated
    => LET lacking == TeamsWithoutAccount(arg[2])
       IN /\ out.attempted = [k \in 1..Len(lacking) |-> lacking[k].name]
          /\ out.successful_count + Len(out.failed_teams) = Len(lacking)
          /\ \A k \in 1..Len(out.failed_teams) :
                out.failed_teams[k].step \in {"team_creation", "user_creation", "database_update"}
          /\ \A k \in 1..Len(lacking) :
                IdsSetInCall(lacking[k].name)
                => /\ \E t \in dj_team : t.name = lacking[k].name
                   /\ \E u \in dj_user : u.name = lacking[k].name

(***************************************************************************)
(* Properties of the interactive shell, checked under SpecMenu.            *)
(***************************************************************************)
\* What one pass of a choice prompt comes to in the running shell: the
\* choice is returned, the prompt is shown again, or the process ends with
\* a status (-1 while it runs).
PromptEffect(result) ==
    CASE result.outcome = "return" -> [status |-> -1, kind |-> "return", choice |-> result.choice]
      [] result.outcome = "again" -> [status |-> -1, kind |-> "again", choice |-> <<>>]
      [] result.outcome = "exit" -> [status |-> 0, kind |-> "shutdown", choice |-> <<>>]
      [] result.outcome = "raise" ->
           [status |-> RunExitStatus(result.raised), kind |-> "shutdown", choice |-> <<>>]

QuitWords == {<<"q">>, <<"q", "u", "i", "t">>, <<"e", "x", "i", "t">>}

\* One step at a prompt of the Setup Menu, as C23 has it.
SetupPromptAsMenuSystem ==
    screen \in SetupMenus
    => LET typed == arg'[1]
           valid_choices == ValidChoices(screen)
       IN /\ PromptEffect(SetupGetUserChoice(typed, valid_choices))
                = PromptEffect(GetUserChoice(typed, valid_choices, FALSE))
          /\ (typed.kind = "line" /\ Lower(Strip(typed.text)) \in QuitWords)
                => (exit_status' = Some(0) /\ ~db_connection')
          /\ (/\ typed.kind = "line"
              /\ Lower(Strip(typed.text)) \notin QuitWords
              /\ ValidateChoice(Strip(typed.text), valid_choices) # None)
                => (screen' = screen /\ exit_status' = None)

\* C23: the choice prompt of the Setup Menu behaves as the one of the Menu
\* System.  For every input at a prompt of the Setup Menu the outcome is
\* the one the Menu System's prompt gives for the same input and choices;
\* q, quit or exit ends the process with status 0 and the database
\* disconnected; and an invalid input shows the prompt again.
C23_SamePromptOutcome == [][SetupPromptAsMenuSystem]_vars

\* One step of the shell, as C24 has it.
ShutdownStep ==
    /\ exit_status' # None
          => /\ exit_status = None
             /\ screen' = "exited"
             /\ ~db_connection'
             /\ op' \in {"exit_choice", "quit", "interrupt", "error"}
             /\ (op' = "exit_choice") => (Lower(Strip(arg'[1].text)) = <<"5">>)
             /\ (op' = "quit") => (Lower(Strip(arg'[1].text)) \in QuitWords)
             /\ (op' = "interrupt") => (exc' \in {"none", "KeyboardInterrupt"})
             /\ (op' = "error") => (exc' \notin {"none", "KeyboardInterrupt"})
             /\ exit_status' = Some(IF op' = "error" THEN 1 ELSE 0)
    /\ (op' = "run") => /\ screen' = "main_menu"
                        /\ exit_status' = None
                        /\ db_connection' = out'
    /\ (arg' # <<>> /\ arg'[1] = Interrupt) => (exit_status' = Some(0))
    /\ (arg' # <<>> /\ arg'[1] = EndOfFile) => (exit_status' = Some(1))

\* C24: shutdown.  Whenever the process ends, the tournament database is
\* disconnected; the status is 0 when the Exit choice, a quit word or a
\* keyboard interrupt ended it, at a prompt or a pause of the Menu System
\* or anywhere inside the Setup Menu, and 1 when another exception left the
\* run loop; and run() shows the main menu whether or not the connection at
\* startup succeeded.
C24_Shutdown == [][ShutdownStep]_vars

\* A keyboard interrupt inside the Setup Menu has ended the process.
C24_Witness ==
    /\ screen = "exited"
    /\ exit_status = Some(0)
    /\ exc = "KeyboardInterrupt"
    /\ ~db_connection

(***************************************************************************)
(* Properties of the entry point, checked under SpecMain.                  *)
(***************************************************************************)
\* C25: the entry point starts the interactive shell, and the process ends
\* with status 0 only after the shell was left by the Exit choice, a quit
\* word or Ctrl-C: a process that has ended with status 0 has run the shell
\* to its end.
C25_EntryPoint == exit_status = Some(0) => screen = "exited"

(***************************************************************************)
(* Re-running contest creation, checked under Spec.                        *)
(***************************************************************************)
\* C26: a run of create_all_contests that the Setup Menu starts (the
\* tournament database is connected, the operator has confirmed) sends
\* create requests to the judge system only for planned contests that had no
\* row in the tournament contests table when the run began.
C26_OnlyMissingCreated ==
    (pc # "idle" /\ call_state.db_connection) =>
        \A k \in 1..Len(CallRequests) :
            ~InsertViolatesUnique(call_state.contests_table,
                                  CallRequests[k].request.short_name)

(***************************************************************************)
(* Id allocation on the judge-system database, checked under SpecRace.     *)
(***************************************************************************)
\* The writers that hold an id they read and have not inserted yet.
Allocated == {w \in DOMAIN writers : writers[w].pc = "allocated"}

\* C27: with a single writer, an id that create_team has allocated is
\* greater than every id of the team table, from the read up to the insert.
\* With two writers both can hold the same id (C27_Witness).
C27_SingleWriterIds ==
    (DOMAIN writers = {1}) =>
        \A w \in Allocated : \A t \in dj_team : t.teamid < writers[w].team_id[1]

\* Two writers have both read the next id, neither has inserted, and the
\* two ids are equal.
C27_Witness ==
    /\ DOMAIN writers = {1, 2}
    /\ Allocated = {1, 2}
    /\ writers[1].team_id = writers[2].team_id

(***************************************************************************)
(* Properties of the flow graph, checked under SpecEngine.                 *)
(***************************************************************************)
\* The keys of a flow entry that name where teams go next.
RoutingKeys == {"winner_to", "loser_to", "rank_1_to", "rank_2_to", "rank_3_to",
                "rank_4_to", "rank_5_plus_to", "all_to"}

\* Targets that are no contest: the bye of round 5 and the elimination.
Markers == {"R5_Rest", "eliminated"}

\* The routing targets of a flow entry.
TargetsOf(entry) == {entry[key] : key \in RoutingKeys \cap DOMAIN entry}

\* The round number of the generated contest of that name.
RoundNumberOf(planned, name) ==
    planned[CHOOSE k \in 1..Len(planned) : planned[k].contest_name = name].round_number

\* A target is a marker or a generated contest of a later round.
Forward(planned, round, target) ==
    \/ target \in Markers
    \/ /\ target \in NamesOf(planned)
       /\ RoundNumberOf(planned, target) > round

RECURSIVE After(_, _, _)
\* The nodes a team can stand on after n routing steps from the given ones.
After(flow, nodes, n) ==
    IF n = 0 THEN nodes
    ELSE After(flow,
               UNION {TargetsOf(flow[name]) : name \in nodes \cap DOMAIN flow},
               n - 1)

\* C29: every routing target of the flow graph is a generated contest of a
\* round later than its source's, or one of the markers R5_Rest and
\* eliminated; no team of the initial placement can take more than 8 routing
\* steps; and get_contest_flow hands out the entries this holds for.
C29_ForwardRouting ==
    LET planned == GenerateAllContests
    IN /\ \A name \in DOMAIN CONTEST_FLOW :
            /\ name \in NamesOf(planned)
            /\ \A target \in TargetsOf(CONTEST_FLOW[name]) :
                  Forward(planned, RoundNumberOf(planned, name), target)
       /\ After(CONTEST_FLOW, DOMAIN GetInitialTeamPlacement, TOTAL_ROUNDS + 1) = {}
       /\ (op = "get_contest_flow" /\ out # None) =>
             \A target \in TargetsOf(out[1]) :
                Forward(planned, RoundNumberOf(planned, arg[1]), target)

\* The flow of a round-4 duel was read: its winner rests, its loser goes to
\* the round-5 group.
C29_Witness ==
    /\ op = "get_contest_flow"
    /\ arg = <<"R4_Duel_01">>
    /\ out # None
    /\ TargetsOf(out[1]) = {"R5_Rest", "R5_Group_Losers"}

\* Teams that stand in a contest and teams that arrive at it, counted along
\* the flow graph from the initial placement.
RECURSIVE Occupants(_, _, _)
RECURSIVE BulkArrivals(_, _, _, _)

\* The keys through which one team leaves a contest.
SingleKeys == {"winner_to", "loser_to", "rank_1_to", "rank_2_to", "rank_3_to",
               "rank_4_to"}

\* Teams that a source sends to a target at once: its ranks 5 and below, or
\* all its occupants.
Bulk(flow, placement, source, target) ==
    LET entry == flow[source]
    IN (IF "rank_5_plus_to" \in DOMAIN entry /\ entry.rank_5_plus_to = target
        THEN Occupants(flow, placement, source) - 4 ELSE 0)
       + (IF "all_to" \in DOMAIN entry /\ entry.all_to = target
          THEN Occupants(flow, placement, source) ELSE 0)

BulkArrivals(flow, placement, sources, target) ==
    IF sources = {} THEN 0
    ELSE LET source == CHOOSE s \in sources : TRUE
         IN Bulk(flow, placement, source, target)
            + BulkArrivals(flow, placement, sources \ {source}, target)

\* The number of teams that arrive at a node through routing edges.
Arrivals(flow, placement, target) ==
    Cardinality({pair \in (DOMAIN flow) \X SingleKeys :
                    /\ pair[2] \in DOMAIN flow[pair[1]]
                    /\ flow[pair[1]][pair[2]] = target})
    + BulkArrivals(flow, placement,
                   {s \in DOMAIN flow :
                       \E key \in {"rank_5_plus_to", "all_to"} \cap DOMAIN flow[s] :
                          flow[s][key] = target},
                   target)

\* The teams of the initial placement, or the teams that arrived.
Occupants(flow, placement, name) ==
    IF name \in DOMAIN placement
    THEN Len(placement[name])
    ELSE Arrivals(flow, placement, name)

\* C28: the number of teams that arrive at a generated contest through
\* routing edges, starting from the initial placement, is at most the
\* contest's max_teams.
C28_CapacitiesSuffice ==
    LET planned == GenerateAllContests
    IN \A k \in 1..Len(planned) :
          Arrivals(CONTEST_FLOW, GetInitialTeamPlacement, planned[k].contest_name)
             <= planned[k].max_teams

\* The teams whose tournament ends in a node: those it eliminates by rank
\* (rank_5_plus_to is "eliminated"), or all its occupants when it sends no
\* team on.
EndingIn(flow, placement, name) ==
    LET entry == flow[name]
    IN IF "rank_5_plus_to" \in DOMAIN entry /\ entry.rank_5_plus_to = "eliminated"
       THEN Occupants(flow, placement, name) - 4
       ELSE IF TargetsOf(entry) = {}
            THEN Occupants(flow, placement, name)
            ELSE 0

RECURSIVE EndingAmong(_, _, _)
EndingAmong(flow, placement, names) ==
    IF names = {} THEN 0
    ELSE LET name == CHOOSE n \in names : TRUE
         IN EndingIn(flow, placement, name)
            + EndingAmong(flow, placement, names \ {name})

\* The nodes that carry a final-placement range, and the ranges.
Ranked(flow) == {name \in DOMAIN flow : "final_ranks" \in DOMAIN flow[name]}

FinalRanges(flow) == {flow[name].final_ranks : name \in Ranked(flow)}

\* The nodes that decide single ranks, and the ranks they decide.
Deciding(flow) == {name \in DOMAIN flow : "winner_rank" \in DOMAIN flow[name]}

RanksOf(range) == {range[k] : k \in 1..Len(range)}

\* C30: the final-placement ranges and the single ranks of the flow graph
\* cover 1..48, as many teams end with a range as the range has ranks, and
\* each contest that decides two single ranks receives two teams.
C30_FinalPlacements ==
    LET flow == CONTEST_FLOW
        placement == GetInitialTeamPlacement
    IN /\ UNION {RanksOf(range) : range \in FinalRanges(flow)}
            \cup {flow[name].winner_rank : name \in Deciding(flow)}
            \cup {flow[name].loser_rank : name \in Deciding(flow)}
          = 1..TOTAL_TEAMS
       /\ \A range \in FinalRanges(flow) :
             EndingAmong(flow, placement,
                         {name \in Ranked(flow) : flow[name].final_ranks = range})
                = Len(range)
       /\ \A name \in Deciding(flow) : Occupants(flow, placement, name) = 2

====
